---- MODULE Spec2Model ----
(***************************************************************************)
(* Open Data Insight Platform, frontend.                                   *)
(*                                                                         *)
(* ConnectionWizard (connection-wizard.tsx, kept as src/unnamed/part_004):  *)
(* the connection form, the connection test, the save and the ingestion    *)
(* run with its polling loop, as a state machine over the component's      *)
(* React state.  Every await of a handler splits it in two steps: the      *)
(* part run by the event, and the continuation run when the promise        *)
(* settles.  The backend (src/backend) is not part of the sources; its     *)
(* job state machine is modelled from sections 4.5, 5 and 6 of the         *)
(* specification.                                                          *)
(***************************************************************************)
EXTENDS Integers, Sequences, FiniteSets, TLC

(***************************************************************************)
(* Values.  A nullable string is a string or NULL; a nullable record,      *)
(* text or identifier is None or Some(v).  A text (the value of an input)  *)
(* is a sequence of characters, so that trim() is computed.  Connection    *)
(* and job identifiers are the numbers 1, 2, ... in order of creation.     *)
(***************************************************************************)
NULL == "null"
None == <<>>
Some(v) == <<v>>
IsSome(o) == o # <<>>
Get(o) == o[1]

\* Bounds of the model.
MaxRows == 2         \* parameter rows of the form
MaxInFlight == 1     \* calls of the wizard's handlers awaiting a response or a timer
MaxConnections == 2  \* connections the repository stores
MaxJobs == 2         \* ingestion jobs the orchestrator creates
MaxFetches == 2      \* calls of HomePage's fetchConnections awaiting a response
MaxRecords == 2      \* sample records of a summary with mixed columns
MaxSamples == 6      \* sample records of a summary with one column

\* Program constants.
MaxAttempts == 12
PollIntervalMs == 750

Spaces == {" "}
EmptyText == <<>>

\* String.prototype.trim: drop the leading and the trailing white space.
RECURSIVE TrimLeft(_)
TrimLeft(t) ==
    IF t = <<>> THEN <<>>
    ELSE IF Head(t) \in Spaces THEN TrimLeft(Tail(t)) ELSE t

RECURSIVE TrimRight(_)
TrimRight(t) ==
    IF t = <<>> THEN <<>>
    ELSE IF t[Len(t)] \in Spaces THEN TrimRight(SubSeq(t, 1, Len(t) - 1)) ELSE t

Trim(t) == TrimRight(TrimLeft(t))

\* JavaScript truthiness of a string: the empty string is falsy.
Truthy(t) == t # <<>>

\* `text || null`
OrNull(t) == IF Truthy(t) THEN Some(t) ELSE None

initialParameter == [name |-> EmptyText, value |-> EmptyText]

initialState ==
    [portalName |-> EmptyText, datasetId |-> EmptyText, baseUrl |-> EmptyText,
     path |-> EmptyText, apiKeyName |-> EmptyText, apiKeyValue |-> EmptyText,
     dataFormat |-> "auto", parameters |-> <<initialParameter>>]


\* KeptParameter testing the name alone.
KeptParameter_NameOnly(param) == Truthy(Trim(param.name))

\* The rows buildPayload keeps: name and value both non-blank.
KeptParameter(param) == Truthy(Trim(param.name)) /\ Truthy(Trim(param.value))

TrimmedParameter(param) == [name |-> Trim(param.name), value |-> Trim(param.value)]

RECURSIVE QueryParameters(_)
QueryParameters(params) ==
    IF params = <<>> THEN <<>>
    ELSE IF KeptParameter(Head(params))
         THEN <<TrimmedParameter(Head(params))>> \o QueryParameters(Tail(params))
         ELSE QueryParameters(Tail(params))

buildPayload(f) ==
    [portal_name |-> f.portalName,
     dataset_id |-> f.datasetId,
     base_url |-> f.baseUrl,
     path |-> f.path,
     api_key_name |-> OrNull(f.apiKeyName),
     api_key_value |-> OrNull(f.apiKeyValue),
     data_format |-> f.dataFormat,
     query_parameters |-> QueryParameters(f.parameters)]

VARIABLES
    form, status, result, errorMessage, connectionId, saveState, saveError,
    jobStatus, ingestState, ingestError,
    tests, saves, runs,
    connections, jobs,
    sentNow, calledNow, lastEvent, tested, everCompleted,
    pageConnections, selectedId, isLoading, pageErrorMessage, fetches, reported,
    showRaw, showAnalysisModal, summaryOf, showHistory, filterText,
    question, answer, loading, error, analyses

wizardVars == <<form, status, result, errorMessage, connectionId, saveState, saveError,
                jobStatus, ingestState, ingestError>>
asyncVars == <<tests, saves, runs>>
serverVars == <<connections, jobs>>
ghostVars == <<sentNow, calledNow, lastEvent, tested, everCompleted>>
\* HomePage (connections, selectedId, isLoading, errorMessage and its calls
\* of fetchConnections awaiting an answer), the dashboard's showRaw, the
\* wizard's showAnalysisModal, HomePage's showHistory with the filterText of
\* the history dialog, and the AiInsightsPanel.  reported is the
\* connection the wizard reported last to HomePage, None once the user has
\* selected a connection or a fetch of the list has failed since.
homeVars == <<pageConnections, selectedId, isLoading, pageErrorMessage, fetches, reported>>
viewVars == <<showRaw, showAnalysisModal, summaryOf, showHistory, filterText>>
aiVars == <<question, answer, loading, error, analyses>>
pageVars == <<homeVars, viewVars, aiVars>>
vars == <<wizardVars, asyncVars, serverVars, ghostVars, pageVars>>

\* The calls of a handler that await a response are kept in slots.
TestSlots == 1..MaxInFlight
SaveSlots == 1..MaxInFlight
RunSlots == 1..MaxInFlight
FetchSlots == 1..MaxFetches
AnalysisSlots == 1..MaxInFlight
InFlightOf(f) == Cardinality({i \in DOMAIN f : f[i] # None})
\* As many calls of the wizard's handlers await at once as f has slots.
HasFreeSlot(f) ==
    InFlightOf(tests) + InFlightOf(saves) + InFlightOf(runs) < Cardinality(DOMAIN f)
FreeSlot(f) == CHOOSE i \in DOMAIN f : f[i] = None /\ \A k \in DOMAIN f : k < i => f[k] # None

(***************************************************************************)
(* What a step of the wizard shows to the outside: the requests it sends   *)
(* (sentNow), the props callbacks it calls (calledNow) and which step it   *)
(* was (lastEvent).  The three are those of the wizard's latest step.      *)
(* tested is the payload of the connection test whose success the wizard   *)
(* shows (status = "success"), None in every other status.                 *)
(***************************************************************************)
Request(method, url, body) == [method |-> method, url |-> url, body |-> body]
Event(kind, slot) == [kind |-> kind, slot |-> slot]

Emits(kind, slot, requests, calls) ==
    /\ lastEvent' = Event(kind, slot)
    /\ sentNow' = requests
    /\ calledNow' = calls

\* Responses of the backend the handlers tell apart.
ErrorDetails == {NULL, "detail"}
ThrownErrors == {[isError |-> TRUE, message |-> "Failed to fetch"],
                 [isError |-> FALSE, message |-> NULL]}
TestResponses ==
    {[success |-> TRUE, error |-> NULL, reason |-> "OK", preview |-> "[1]",
      detected_format |-> "json"],
     [success |-> FALSE, error |-> "timed out", reason |-> NULL, preview |-> NULL,
      detected_format |-> "unknown"],
     [success |-> FALSE, error |-> NULL, reason |-> "Not Found", preview |-> "x",
      detected_format |-> "json"],
     [success |-> FALSE, error |-> NULL, reason |-> NULL, preview |-> NULL,
      detected_format |-> "unknown"]}

\* a ?? b, with no fallback.
Coalesce_NoFallback(a, b) == a

\* a ?? b
Coalesce(a, b) == IF a # NULL THEN a ELSE b

\* JSON.stringify(JSON.parse(text), null, 2) of the previews the backend
\* answers with; a text that is not JSON makes JSON.parse throw.
JsonTexts == {"[1]"}
JsonPretty(text) == IF text = "[1]" THEN "[\n  1\n]" ELSE text

\* prettyPreview: null without a preview, the preview re-indented when the
\* detected format is JSON and the text parses, the preview as it is else.
prettyPreview(response) ==
    IF ~IsSome(response) THEN NULL
    ELSE IF Get(response).preview \in {NULL, ""} THEN NULL
    ELSE IF Get(response).detected_format = "json"
         THEN (IF Get(response).preview \in JsonTexts
               THEN JsonPretty(Get(response).preview)
               ELSE Get(response).preview)
         ELSE Get(response).preview

\* error instanceof Error ? error.message : fallback
ErrorText(e, fallback) == IF e.isError THEN e.message ELSE fallback

(***************************************************************************)
(* Init: the state of a freshly mounted wizard, and an empty backend.      *)
(***************************************************************************)
InitWizard ==
    /\ status = "idle"
    /\ result = None
    /\ errorMessage = NULL
    /\ connectionId = None
    /\ saveState = "idle"
    /\ saveError = NULL
    /\ jobStatus = None
    /\ ingestState = "idle"
    /\ ingestError = NULL
    /\ tests = [i \in TestSlots |-> None]
    /\ saves = [i \in SaveSlots |-> None]
    /\ runs = [i \in RunSlots |-> None]
    /\ connections = <<>>
    /\ jobs = <<>>
    /\ sentNow = <<>>
    /\ calledNow = <<>>
    /\ lastEvent = Event("mount", 0)
    /\ tested = None
    /\ everCompleted = {}

\* HomePage, dashboard and AiInsightsPanel as constructed, before the
\* effect of the mount has run.
InitPage ==
    /\ pageConnections = <<>>
    /\ selectedId = None
    /\ isLoading = FALSE
    /\ pageErrorMessage = NULL
    /\ fetches = [i \in FetchSlots |-> None]
    /\ reported = None
    /\ showRaw = FALSE
    /\ showAnalysisModal = FALSE
    /\ showHistory = FALSE
    /\ filterText = EmptyText
    /\ summaryOf = [name \in {"summary A", "summary B"} |-> <<>>]
    /\ question = EmptyText
    /\ answer = ""
    /\ loading = FALSE
    /\ error = NULL
    /\ analyses = [i \in AnalysisSlots |-> None]

Init ==
    /\ form = initialState
    /\ InitWizard
    /\ InitPage

(***************************************************************************)
(* The form.  Every input of the form bubbles its change event to the      *)
(* form's onChange = resetResult; the Add parameter and Remove buttons     *)
(* are clicks and reach no onChange.                                       *)
(***************************************************************************)
\* resetResult leaving ingestState as it is.
resetResult_KeepsIngestState ==
    /\ status' = IF status # "idle" THEN "idle" ELSE status
    /\ result' = IF IsSome(result) THEN None ELSE result
    /\ errorMessage' = IF errorMessage # NULL THEN NULL ELSE errorMessage
    /\ connectionId' = IF IsSome(connectionId) THEN None ELSE connectionId
    /\ saveState' = IF saveState # "idle" THEN "idle" ELSE saveState
    /\ saveError' = IF saveError # NULL THEN NULL ELSE saveError
    /\ jobStatus' = IF IsSome(jobStatus) THEN None ELSE jobStatus
    /\ ingestState' = ingestState
    /\ ingestError' = IF ingestError # NULL THEN NULL ELSE ingestError

resetResult ==
    /\ status' = IF status # "idle" THEN "idle" ELSE status
    /\ result' = IF IsSome(result) THEN None ELSE result
    /\ errorMessage' = IF errorMessage # NULL THEN NULL ELSE errorMessage
    /\ connectionId' = IF IsSome(connectionId) THEN None ELSE connectionId
    /\ saveState' = IF saveState # "idle" THEN "idle" ELSE saveState
    /\ saveError' = IF saveError # NULL THEN NULL ELSE saveError
    /\ jobStatus' = IF IsSome(jobStatus) THEN None ELSE jobStatus
    /\ ingestState' = IF ingestState # "idle" THEN "idle" ELSE ingestState
    /\ ingestError' = IF ingestError # NULL THEN NULL ELSE ingestError

handleFieldChange(field, value) ==
    /\ value # form[field]
    /\ form' = [form EXCEPT ![field] = value]
    /\ resetResult
    /\ Emits("fieldChange", 0, <<>>, <<>>)
    /\ tested' = None
    /\ UNCHANGED <<asyncVars, serverVars, everCompleted>>
    /\ UNCHANGED pageVars

handleParameterChange(index, field, value) ==
    /\ index \in 1..Len(form.parameters)
    /\ value # form.parameters[index][field]
    /\ form' = [form EXCEPT !.parameters[index][field] = value]
    /\ resetResult
    /\ Emits("parameterChange", 0, <<>>, <<>>)
    /\ tested' = None
    /\ UNCHANGED <<asyncVars, serverVars, everCompleted>>
    /\ UNCHANGED pageVars

addParameterRow ==
    /\ Len(form.parameters) < MaxRows
    /\ form' = [form EXCEPT !.parameters = Append(@, initialParameter)]
    /\ Emits("addParameterRow", 0, <<>>, <<>>)
    /\ UNCHANGED <<status, result, errorMessage, connectionId, saveState, saveError,
                   jobStatus, ingestState, ingestError>>
    /\ UNCHANGED <<asyncVars, serverVars, tested, everCompleted>>
    /\ UNCHANGED pageVars

RemoveAt(s, index) == SubSeq(s, 1, index - 1) \o SubSeq(s, index + 1, Len(s))

\* The Remove button of a row is rendered only while there is more than one row.
removeParameterRow(index) ==
    /\ Len(form.parameters) > 1
    /\ index \in 1..Len(form.parameters)
    /\ form' = [form EXCEPT !.parameters = RemoveAt(@, index)]
    /\ Emits("removeParameterRow", 0, <<>>, <<>>)
    /\ UNCHANGED <<status, result, errorMessage, connectionId, saveState, saveError,
                   jobStatus, ingestState, ingestError>>
    /\ UNCHANGED <<asyncVars, serverVars, tested, everCompleted>>
    /\ UNCHANGED pageVars

(***************************************************************************)
(* Test Connection.                                                        *)
(***************************************************************************)
\* The text of the Data Preview panel, rendered while result is not null.
formattedPreview == prettyPreview(result)

\* The four inputs marked `required`: the browser sends no submit event
\* while one of them is empty.
FormValid == \A field \in {"portalName", "datasetId", "baseUrl", "path"} : form[field] # EmptyText

\* A request's target: the route, and the ids in it (0: the route has none).
Url(route, id, job) == [route |-> route, id |-> id, job |-> job]

TestUrl == Url("/connections/test", 0, 0)

handleSubmit ==
    /\ status # "loading"
    /\ FormValid
    /\ HasFreeSlot(tests)
    /\ status' = "loading"
    /\ errorMessage' = NULL
    /\ tests' = [tests EXCEPT ![FreeSlot(tests)] = Some([payload |-> buildPayload(form)])]
    /\ Emits("submit", FreeSlot(tests), <<Request("POST", TestUrl, Some(buildPayload(form)))>>, <<>>)
    /\ UNCHANGED <<form, result, connectionId, saveState, saveError, jobStatus,
                   ingestState, ingestError>>
    /\ tested' = None
    /\ UNCHANGED <<saves, runs, serverVars, everCompleted>>
    /\ UNCHANGED pageVars

\* !response.ok
TestNotOk(slot, detail) ==
    /\ IsSome(tests[slot])
    /\ errorMessage' = Coalesce(detail, "Connection test failed.")
    /\ status' = "error"
    /\ tests' = [tests EXCEPT ![slot] = None]
    /\ Emits("testNotOk", slot, <<>>, <<>>)
    /\ UNCHANGED <<form, result, connectionId, saveState, saveError, jobStatus,
                   ingestState, ingestError>>
    /\ tested' = None
    /\ UNCHANGED <<saves, runs, serverVars, everCompleted>>
    /\ UNCHANGED pageVars

TestOk(slot, data) ==
    /\ IsSome(tests[slot])
    /\ result' = Some(data)
    /\ status' = IF data.success THEN "success" ELSE "error"
    /\ errorMessage' = IF ~data.success
                       THEN Coalesce(data.error, Coalesce(data.reason, "Connection test failed."))
                       ELSE errorMessage
    /\ tested' = IF data.success THEN Some(Get(tests[slot]).payload) ELSE None
    /\ tests' = [tests EXCEPT ![slot] = None]
    /\ Emits("testOk", slot, <<>>, <<>>)
    /\ UNCHANGED <<form, connectionId, saveState, saveError, jobStatus,
                   ingestState, ingestError>>
    /\ UNCHANGED <<saves, runs, serverVars, everCompleted>>
    /\ UNCHANGED pageVars

\* fetch or response.json() rejects
TestThrows(slot, e) ==
    /\ IsSome(tests[slot])
    /\ errorMessage' = ErrorText(e, "An unexpected error occurred.")
    /\ status' = "error"
    /\ tests' = [tests EXCEPT ![slot] = None]
    /\ Emits("testThrows", slot, <<>>, <<>>)
    /\ UNCHANGED <<form, result, connectionId, saveState, saveError, jobStatus,
                   ingestState, ingestError>>
    /\ tested' = None
    /\ UNCHANGED <<saves, runs, serverVars, everCompleted>>
    /\ UNCHANGED pageVars

(***************************************************************************)
(* Save Connection.  The button is rendered while status = "success" and   *)
(* is disabled while saveState = "saving".  The repository answers a POST  *)
(* /connections by storing the payload under a new id.                     *)
(***************************************************************************)
ConnectionsUrl == Url("/connections", 0, 0)

SaveConnectionEnabled == status = "success" /\ saveState # "saving"

handleSaveConnection ==
    /\ SaveConnectionEnabled
    /\ HasFreeSlot(saves)
    /\ saveState' = "saving"
    /\ saveError' = NULL
    /\ connectionId' = None
    /\ jobStatus' = None
    /\ saves' = [saves EXCEPT ![FreeSlot(saves)] =
                     Some([payload |-> buildPayload(form), selectedId |-> selectedId])]
    /\ Emits("save", FreeSlot(saves),
             <<Request("POST", ConnectionsUrl, Some(buildPayload(form)))>>, <<>>)
    /\ UNCHANGED <<form, status, result, errorMessage, ingestState, ingestError>>
    /\ UNCHANGED <<tests, runs, serverVars, tested, everCompleted>>
    /\ UNCHANGED pageVars

SaveNotOk(slot, detail) ==
    /\ IsSome(saves[slot])
    /\ saveError' = Coalesce(detail, "Failed to save connection.")
    /\ saveState' = "error"
    /\ saves' = [saves EXCEPT ![slot] = None]
    /\ Emits("saveNotOk", slot, <<>>, <<>>)
    /\ UNCHANGED <<form, status, result, errorMessage, connectionId, jobStatus,
                   ingestState, ingestError>>
    /\ UNCHANGED <<tests, runs, serverVars, tested, everCompleted>>
    /\ UNCHANGED pageVars

\* The repository's answer to POST /connections: the stored connection.
StoredConnection(id, payload) ==
    [id |-> id, portal_name |-> payload.portal_name, dataset_id |-> payload.dataset_id,
     last_ingestion_summary |-> NULL]

\* The successful save on both sides: the repository stores the connection
\* and the wizard shows it saved.
SaveStored(slot) ==
    /\ IsSome(saves[slot])
    /\ Len(connections) < MaxConnections
    /\ LET data == StoredConnection(Len(connections) + 1, Get(saves[slot]).payload)
       IN /\ connections' = Append(connections, data)
          /\ connectionId' = Some(data.id)
          /\ saveState' = "saved"
    /\ saves' = [saves EXCEPT ![slot] = None]
    /\ UNCHANGED <<form, status, result, errorMessage, saveError, jobStatus,
                   ingestState, ingestError>>
    /\ UNCHANGED <<tests, runs, jobs, tested, everCompleted>>

\* The wizard on its own: onConnectionSaved is a prop of the wizard.
SaveOk(slot) ==
    /\ SaveStored(slot)
    /\ Emits("saveOk", slot, <<>>,
             <<[fn |-> "onConnectionSaved", id |-> Len(connections) + 1]>>)
    /\ UNCHANGED pageVars

SaveThrows(slot, e) ==
    /\ IsSome(saves[slot])
    /\ saveError' = ErrorText(e, "An error occurred while saving.")
    /\ saveState' = "error"
    /\ saves' = [saves EXCEPT ![slot] = None]
    /\ Emits("saveThrows", slot, <<>>, <<>>)
    /\ UNCHANGED <<form, status, result, errorMessage, connectionId, jobStatus,
                   ingestState, ingestError>>
    /\ UNCHANGED <<tests, runs, serverVars, tested, everCompleted>>
    /\ UNCHANGED pageVars

(***************************************************************************)
(* The Job Orchestrator (backend; specification sections 3, 4.5, 5, 6).    *)
(* jobs is the job table, jobs[j] the record of job j.                     *)
(***************************************************************************)
Summaries == {"summary A", "summary B"}
FailureCauses == {"cannot fetch any page"}

ActiveStatuses == {"pending", "running"}
TerminalStatuses == {"completed", "failed"}

\* NewJob stamping started_at at creation.
NewJob_Started(id, cid) ==
    [job_id |-> id, connection_id |-> cid, status |-> "pending",
     started_at |-> "set", finished_at |-> NULL,
     message |-> NULL, errors |-> <<>>, summary |-> NULL]

NewJob(id, cid) ==
    [job_id |-> id, connection_id |-> cid, status |-> "pending",
     started_at |-> NULL, finished_at |-> NULL,
     message |-> NULL, errors |-> <<>>, summary |-> NULL]

ActiveJobsOf(js, cid) ==
    {j \in 1..Len(js) : js[j].connection_id = cid /\ js[j].status \in ActiveStatuses}

\* StartIngestion without the check for an active job.
StartIngestion_Always(js, cid) == Append(js, NewJob(Len(js) + 1, cid))

\* POST /connections/{id}/ingest: the job table after the request.  A
\* connection with an active job gets no second one.
StartIngestion(js, cid) ==
    IF ActiveJobsOf(js, cid) # {} THEN js ELSE Append(js, NewJob(Len(js) + 1, cid))

\* The job the request is answered with: the connection's active job.
IngestionAnswer(js, cid) == js[CHOOSE j \in ActiveJobsOf(js, cid) : TRUE]

\* pending -> running, on worker pickup
PickedUp(job) == [job EXCEPT !.status = "running", !.started_at = "set"]

\* Completed with the summary left to a later write.
Completed_SummaryLater(job, summary) ==
    [job EXCEPT !.status = "completed", !.finished_at = "set"]

\* running -> completed: the summary is written with the status
Completed(job, summary) ==
    [job EXCEPT !.status = "completed", !.finished_at = "set", !.summary = summary]

\* Failed without the cause.
Failed_NoCause(job, cause) == [job EXCEPT !.status = "failed", !.finished_at = "set"]

\* running -> failed
Failed(job, cause) ==
    [job EXCEPT !.status = "failed", !.finished_at = "set",
                !.message = cause, !.errors = <<cause>>]

WorkerPickup(j) ==
    /\ j \in 1..Len(jobs)
    /\ jobs[j].status = "pending"
    /\ jobs' = [jobs EXCEPT ![j] = PickedUp(@)]
    /\ UNCHANGED <<wizardVars, asyncVars, connections, ghostVars>>
    /\ UNCHANGED pageVars

WorkerCompletes(j, summary) ==
    /\ j \in 1..Len(jobs)
    /\ jobs[j].status = "running"
    /\ jobs' = [jobs EXCEPT ![j] = Completed(@, summary)]
    /\ connections' = [connections EXCEPT ![jobs[j].connection_id].last_ingestion_summary = summary]
    /\ UNCHANGED <<wizardVars, asyncVars, ghostVars>>
    /\ UNCHANGED pageVars

\* CanFail also for a job that has completed (a late failure report).
CanFail_Late(job) == job.status \in {"running", "completed"}

\* A stage fails only in a running job.
CanFail(job) == job.status = "running"

WorkerFails(j, cause) ==
    /\ j \in 1..Len(jobs)
    /\ CanFail(jobs[j])
    /\ jobs' = [jobs EXCEPT ![j] = Failed(@, cause)]
    /\ UNCHANGED <<wizardVars, asyncVars, connections, ghostVars>>
    /\ UNCHANGED pageVars

(***************************************************************************)
(* Run Data Ingestion: handleIngestion, then pollJobStatus.  A run is one  *)
(* call of handleIngestion that sent its POST; runs[slot] is its position: *)
(* pc = "start" awaiting the POST, "wait" awaiting the timer, "fetch"      *)
(* awaiting the GET; polls counts the GETs it sent and waited the time it  *)
(* spent in setTimeout; after is the ingestState the click found, kept     *)
(* until the POST is answered.  A response is read from the job table at   *)
(* the step that delivers it.                                              *)
(***************************************************************************)
IngestUrl(cid) == Url("/connections/{id}/ingest", cid, 0)
JobUrl(cid, jid) == Url("/connections/{id}/ingest/{job_id}", cid, jid)

RunIngestionEnabled ==
    /\ status = "success"
    /\ IsSome(connectionId)
    /\ ingestState \notin {"starting", "polling"}

\* everCompleted: the jobs a response to the wizard has shown as completed.
Observe(job) ==
    everCompleted' = IF job.status = "completed"
                     THEN everCompleted \cup {job.job_id} ELSE everCompleted

handleIngestion ==
    IF ~IsSome(connectionId)
    THEN /\ ingestError' = "Save the connection before running ingestion."
         /\ ingestState' = "failed"
         /\ Emits("ingestNoConnection", 0, <<>>, <<>>)
         /\ UNCHANGED <<form, status, result, errorMessage, connectionId, saveState,
                        saveError, jobStatus>>
         /\ UNCHANGED <<asyncVars, serverVars, tested, everCompleted>>
         /\ UNCHANGED pageVars
    ELSE /\ HasFreeSlot(runs)
         /\ ingestState' = "starting"
         /\ ingestError' = NULL
         /\ runs' = [runs EXCEPT ![FreeSlot(runs)] =
                        Some([pc |-> "start", connectionId |-> Get(connectionId), jobId |-> 0,
                              attempt |-> 0, polls |-> 0, waited |-> 0,
                              after |-> ingestState])]
         /\ Emits("ingestStart", FreeSlot(runs),
                  <<Request("POST", IngestUrl(Get(connectionId)),
                            Some([force_refresh |-> FALSE]))>>, <<>>)
         /\ UNCHANGED <<form, status, result, errorMessage, connectionId, saveState,
                        saveError, jobStatus>>
         /\ UNCHANGED <<tests, saves, serverVars, tested, everCompleted>>
         /\ UNCHANGED pageVars

ClickRunIngestion == RunIngestionEnabled /\ handleIngestion

AtPc(slot, pc) == IsSome(runs[slot]) /\ Get(runs[slot]).pc = pc

\* IngestNotOk going on to poll the status.
IngestNotOk_StillPolls(slot, detail) ==
    /\ AtPc(slot, "start")
    /\ ingestError' = Coalesce(detail, "Failed to start data ingestion.")
    /\ ingestState' = "failed"
    /\ runs' = [runs EXCEPT ![slot] = Some([Get(runs[slot]) EXCEPT !.pc = "wait"])]
    /\ Emits("ingestNotOk", slot, <<>>, <<>>)
    /\ UNCHANGED <<form, status, result, errorMessage, connectionId, saveState,
                   saveError, jobStatus>>
    /\ UNCHANGED <<tests, saves, serverVars, tested, everCompleted>>
    /\ UNCHANGED pageVars

IngestNotOk(slot, detail) ==
    /\ AtPc(slot, "start")
    /\ ingestError' = Coalesce(detail, "Failed to start data ingestion.")
    /\ ingestState' = "failed"
    /\ runs' = [runs EXCEPT ![slot] = None]
    /\ Emits("ingestNotOk", slot, <<>>, <<>>)
    /\ UNCHANGED <<form, status, result, errorMessage, connectionId, saveState,
                   saveError, jobStatus>>
    /\ UNCHANGED <<tests, saves, serverVars, tested, everCompleted>>
    /\ UNCHANGED pageVars

IngestThrows(slot, e) ==
    /\ AtPc(slot, "start")
    /\ ingestError' = ErrorText(e, "An error occurred while ingesting data.")
    /\ ingestState' = "failed"
    /\ runs' = [runs EXCEPT ![slot] = None]
    /\ Emits("ingestThrows", slot, <<>>, <<>>)
    /\ UNCHANGED <<form, status, result, errorMessage, connectionId, saveState,
                   saveError, jobStatus>>
    /\ UNCHANGED <<tests, saves, serverVars, tested, everCompleted>>
    /\ UNCHANGED pageVars

\* The POST is answered with a job: setJobStatus(job), then pollJobStatus
\* runs up to its first await.
IngestOk(slot) ==
    /\ AtPc(slot, "start")
    /\ LET run == Get(runs[slot])
           cid == run.connectionId
           after == StartIngestion(jobs, cid)
           job == IngestionAnswer(after, cid)
       IN /\ Len(after) <= MaxJobs
          /\ jobs' = after
          /\ jobStatus' = Some(job)
          /\ ingestState' = "polling"
          /\ runs' = [runs EXCEPT ![slot] =
                         Some([run EXCEPT !.pc = "wait", !.jobId = job.job_id, !.after = "idle"])]
          /\ Observe(job)
          /\ Emits(IF run.after = "timeout" THEN "ingestOkAfterTimeout" ELSE "ingestOk",
                   slot, <<>>, <<>>)
    /\ UNCHANGED <<form, status, result, errorMessage, connectionId, saveState,
                   saveError, ingestError>>
    /\ UNCHANGED <<tests, saves, connections, tested>>
    /\ UNCHANGED pageVars

\* await setTimeout(750), then the GET is sent.
PollTimer(slot) ==
    /\ AtPc(slot, "wait")
    /\ LET run == Get(runs[slot])
       IN /\ runs' = [runs EXCEPT ![slot] =
                         Some([run EXCEPT !.pc = "fetch", !.polls = @ + 1,
                                          !.waited = @ + PollIntervalMs])]
          /\ Emits("pollTimer", slot,
                   <<Request("GET", JobUrl(run.connectionId, run.jobId), None)>>, <<>>)
    /\ UNCHANGED <<wizardVars, tests, saves, serverVars, tested, everCompleted>>
    /\ UNCHANGED pageVars

PollNotOk(slot) ==
    /\ AtPc(slot, "fetch")
    /\ ingestError' = "Unable to check ingestion status."
    /\ ingestState' = "failed"
    /\ runs' = [runs EXCEPT ![slot] = None]
    /\ Emits("pollNotOk", slot, <<>>, <<>>)
    /\ UNCHANGED <<form, status, result, errorMessage, connectionId, saveState,
                   saveError, jobStatus>>
    /\ UNCHANGED <<tests, saves, serverVars, tested, everCompleted>>
    /\ UNCHANGED pageVars

PollThrows(slot) ==
    /\ AtPc(slot, "fetch")
    /\ ingestError' = "Error while checking ingestion status."
    /\ ingestState' = "failed"
    /\ runs' = [runs EXCEPT ![slot] = None]
    /\ Emits("pollThrows", slot, <<>>, <<>>)
    /\ UNCHANGED <<form, status, result, errorMessage, connectionId, saveState,
                   saveError, jobStatus>>
    /\ UNCHANGED <<tests, saves, serverVars, tested, everCompleted>>
    /\ UNCHANGED pageVars

\* PollOutcome with the loop bound off by one.
PollOutcome_OffByOne(data, attempt) ==
    IF data.status = "completed" THEN "completed"
    ELSE IF data.status = "failed" THEN "failed"
    ELSE IF attempt + 1 <= MaxAttempts THEN "continue"
    ELSE "timeout"

\* How the loop goes on after the response `data` of attempt `attempt`.
PollOutcome(data, attempt) ==
    IF data.status = "completed" THEN "completed"
    ELSE IF data.status = "failed" THEN "failed"
    ELSE IF attempt + 1 < MaxAttempts THEN "continue"
    ELSE "timeout"

\* PolledJobStatus with setJobStatus placed after the two returns.
PolledJobStatus_AfterReturns(data, outcome) ==
    IF outcome \in {"completed", "failed"} THEN jobStatus ELSE Some(data)

\* The job on display after the response `data`.
PolledJobStatus(data, outcome) == Some(data)

\* ExitRequests with a cancellation sent when the loop gives up.
ExitRequests_Cancel(run, outcome) ==
    IF outcome = "timeout"
    THEN <<Request("DELETE", JobUrl(run.connectionId, run.jobId), None)>>
    ELSE <<>>

\* The requests the loop sends when it leaves with `outcome`.
ExitRequests(run, outcome) == <<>>

\* ExitCalls reporting completed jobs only.
ExitCalls_CompletedOnly(run, data, outcome) ==
    IF outcome = "completed"
    THEN <<[fn |-> "onJobCompleted", id |-> run.connectionId, job |-> data]>>
    ELSE <<>>

\* The props callbacks the loop calls when it leaves with `outcome`.
ExitCalls(run, data, outcome) ==
    IF outcome \in {"completed", "failed"}
    THEN <<[fn |-> "onJobCompleted", id |-> run.connectionId, job |-> data]>>
    ELSE <<>>

PollOk(slot) ==
    /\ AtPc(slot, "fetch")
    /\ LET run == Get(runs[slot])
           data == jobs[run.jobId]
           outcome == PollOutcome(data, run.attempt)
       IN /\ jobStatus' = PolledJobStatus(data, outcome)
          /\ Observe(data)
          /\ ingestState' = CASE outcome = "completed" -> "completed"
                              [] outcome = "failed" -> "failed"
                              [] outcome = "timeout" -> "timeout"
                              [] OTHER -> ingestState
          /\ ingestError' = CASE outcome = "failed" -> Coalesce(data.message, "Data ingestion failed.")
                              [] outcome = "timeout" -> "Ingestion did not finish in the expected time."
                              [] OTHER -> ingestError
          /\ runs' = [runs EXCEPT ![slot] =
                         IF outcome = "continue"
                         THEN Some([run EXCEPT !.pc = "wait", !.attempt = @ + 1])
                         ELSE None]
          /\ Emits(CASE outcome = "completed" -> "pollCompleted"
                     [] outcome = "failed" -> "pollFailed"
                     [] outcome = "timeout" -> "pollTimeout"
                     [] OTHER -> "pollContinue",
                   slot,
                   ExitRequests(run, outcome),
                   ExitCalls(run, data, outcome))
    /\ UNCHANGED <<form, status, result, errorMessage, connectionId, saveState, saveError>>
    /\ UNCHANGED <<tests, saves, serverVars, tested>>
    /\ UNCHANGED pageVars

(***************************************************************************)
(* The specification of the ingestion run: the wizard with its backend.    *)
(* The user's inputs and the backend's answers to the connection test and  *)
(* to the save are drawn from small sets.                                  *)
(***************************************************************************)
TextA == <<"a">>
TextK == <<"k">>

FieldEdits ==
    {<<"portalName", TextA>>, <<"datasetId", TextA>>, <<"baseUrl", TextA>>,
     <<"path", TextA>>, <<"apiKeyName", TextK>>, <<"apiKeyName", EmptyText>>}

NoDetail == {NULL}
FetchFailure == {[isError |-> TRUE, message |-> "Failed to fetch"]}
TestSuccess == {r \in TestResponses : r.success}

Next ==
    \/ \E e \in FieldEdits : handleFieldChange(e[1], e[2])
    \/ handleSubmit
    \/ \E slot \in TestSlots, detail \in NoDetail : TestNotOk(slot, detail)
    \/ \E slot \in TestSlots, data \in TestSuccess : TestOk(slot, data)
    \/ handleSaveConnection
    \/ \E slot \in SaveSlots, detail \in NoDetail : SaveNotOk(slot, detail)
    \/ \E slot \in SaveSlots : SaveOk(slot)
    \/ ClickRunIngestion
    \/ \E slot \in RunSlots, detail \in NoDetail : IngestNotOk(slot, detail)
    \/ \E slot \in RunSlots, e \in FetchFailure : IngestThrows(slot, e)
    \/ \E slot \in RunSlots : IngestOk(slot)
    \/ \E slot \in RunSlots : PollTimer(slot)
    \/ \E slot \in RunSlots : PollNotOk(slot)
    \/ \E slot \in RunSlots : PollThrows(slot)
    \/ \E slot \in RunSlots : PollOk(slot)
    \/ \E j \in 1..MaxJobs : WorkerPickup(j)
    \/ \E j \in 1..MaxJobs, summary \in Summaries : WorkerCompletes(j, summary)
    \/ \E j \in 1..MaxJobs, cause \in FailureCauses : WorkerFails(j, cause)

Spec == Init /\ [][Next]_vars

(***************************************************************************)
(* The specification of the form: edits of the fields and of the           *)
(* parameter rows, the connection test and the save, with every answer     *)
(* the handlers tell apart.                                                *)
(***************************************************************************)
ParameterEdits == {<<"name", TextA>>, <<"value", TextA>>}

NextForm ==
    \/ \E e \in FieldEdits : handleFieldChange(e[1], e[2])
    \/ \E i \in 1..MaxRows, e \in ParameterEdits : handleParameterChange(i, e[1], e[2])
    \/ addParameterRow
    \/ \E i \in 1..MaxRows : removeParameterRow(i)
    \/ handleSubmit
    \/ \E slot \in TestSlots, detail \in ErrorDetails : TestNotOk(slot, detail)
    \/ \E slot \in TestSlots, data \in TestResponses : TestOk(slot, data)
    \/ \E slot \in TestSlots, e \in ThrownErrors : TestThrows(slot, e)
    \/ handleSaveConnection
    \/ \E slot \in SaveSlots, detail \in ErrorDetails : SaveNotOk(slot, detail)
    \/ \E slot \in SaveSlots : SaveOk(slot)
    \/ \E slot \in SaveSlots, e \in ThrownErrors : SaveThrows(slot, e)

SpecForm == Init /\ [][NextForm]_vars

(***************************************************************************)
(* The specification of the request body: the form starts filled in, with  *)
(* blank, padded and distinct texts in its fields and rows (every one of   *)
(* them a state the edits lead to, the wizard being idle after an edit),   *)
(* and is submitted.                                                       *)
(***************************************************************************)
TextPadded == <<" ", "a", " ">>
TextBlank == <<" ">>
ParameterTexts == {EmptyText, TextBlank, TextPadded, TextK}
ParameterRows == [name : ParameterTexts, value : ParameterTexts]

RECURSIVE RowsOfLength(_)
RowsOfLength(n) ==
    IF n = 0 THEN {<<>>}
    ELSE {Append(rows, row) : rows \in RowsOfLength(n - 1), row \in ParameterRows}

PayloadForms ==
    [portalName : {TextA, <<" ", "a">>}, datasetId : {TextA}, baseUrl : {TextA},
     path : {TextA}, apiKeyName : {EmptyText, TextK}, apiKeyValue : {EmptyText, TextBlank},
     dataFormat : {"auto", "json"},
     parameters : UNION {RowsOfLength(n) : n \in 1..MaxRows}]

InitPayload ==
    /\ form \in PayloadForms
    /\ InitWizard
    /\ InitPage

NextPayload ==
    \/ handleSubmit
    \/ \E slot \in TestSlots, detail \in NoDetail : TestNotOk(slot, detail)
    \/ \E slot \in TestSlots, data \in TestSuccess : TestOk(slot, data)
    \/ \E slot \in TestSlots, e \in FetchFailure : TestThrows(slot, e)

SpecPayload == InitPayload /\ [][NextPayload]_vars

(***************************************************************************)
(* The ingestion summary as the frontend reads it.  A JSON value is a      *)
(* string, a number or null; an object is the sequence of its entries in   *)
(* the order Object.entries yields them; a key an object lacks reads as    *)
(* undefined.                                                              *)
(***************************************************************************)
Str(text) == [kind |-> "string", text |-> text, num |-> 0]
Num(n) == [kind |-> "number", text |-> "", num |-> n]
Nil == [kind |-> "null", text |-> "", num |-> 0]
Undefined == [kind |-> "undefined", text |-> "", num |-> 0]

Entry(key, value) == [key |-> key, value |-> value]

Keys(record) == [i \in 1..Len(record) |-> record[i].key]

\* record[key]
Field(record, key) ==
    IF \E i \in 1..Len(record) : record[i].key = key
    THEN record[CHOOSE i \in 1..Len(record) : record[i].key = key].value
    ELSE Undefined

\* Array.prototype.slice(0, n)
Slice(s, n) == SubSeq(s, 1, IF Len(s) < n THEN Len(s) ELSE n)

\* The texts Date.parse turns into a finite number.
TimestampTexts == {"2024-01-01", "2024-01-02"}

\* What the pipeline computes for a summary: its content.
SummaryContent(name) == IF name = NULL THEN None ELSE Some(summaryOf[name])
(***************************************************************************)
(* visualization-presets: the charts recommended for a summary.            *)
(***************************************************************************)
createNumericPreset(field, stats) ==
    [id |-> <<"numeric", field>>, label |-> <<field, " distribution">>,
     fields |-> <<field>>, type |-> "numeric"]

createCategoricalPreset(fields) ==
    [id |-> <<"categorical">> \o fields, label |-> <<"Category frequency">>,
     fields |-> fields, type |-> "categorical"]

createTimeSeriesPreset(field) ==
    [id |-> <<"timeseries", field>>, label |-> <<field, " time series">>,
     fields |-> <<field>>, type |-> "timeseries"]

isLikelyTimestamp(value) == value.kind = "string" /\ value.text \in TimestampTexts

collectTimestampFields(summary) ==
    IF summary.sample_records = <<>> THEN <<>>
    ELSE Keys(SelectSeq(summary.sample_records[1], LAMBDA e : isLikelyTimestamp(e.value)))

collectCategoricalFields(summary) ==
    IF summary.sample_records = <<>> THEN <<>>
    ELSE Keys(SelectSeq(summary.sample_records[1],
                        LAMBDA e : e.value.kind = "string" /\ ~isLikelyTimestamp(e.value)))

\* NumericPresets without the last column.
NumericPresets_DropLast(summary) ==
    [i \in 1..(Len(summary.numeric_summary) - 1) |->
        createNumericPreset(summary.numeric_summary[i].key, summary.numeric_summary[i].value)]

NumericPresets(summary) ==
    [i \in 1..Len(summary.numeric_summary) |->
        createNumericPreset(summary.numeric_summary[i].key, summary.numeric_summary[i].value)]

CategoricalPresets(summary) ==
    LET categorical == Slice(collectCategoricalFields(summary), 2)
    IN IF Len(categorical) > 0 THEN <<createCategoricalPreset(categorical)>> ELSE <<>>

TimeSeriesPresets(summary) ==
    LET temporal == collectTimestampFields(summary)
    IN [i \in 1..Len(temporal) |-> createTimeSeriesPreset(temporal[i])]

\* summary: None for null.
recommendPresets(summary) ==
    IF ~IsSome(summary) THEN <<>>
    ELSE NumericPresets(Get(summary)) \o CategoricalPresets(Get(summary))
             \o TimeSeriesPresets(Get(summary))
(***************************************************************************)
(* connections-dashboard: what the dashboard derives from the selected     *)
(* connection.  A number that need not be whole (meanPercent) is the       *)
(* fraction num / den with den > 0.                                        *)
(***************************************************************************)
SampleLimit == 5

Fraction(num, den) == IF den < 0 THEN [num |-> 0 - num, den |-> 0 - den]
                      ELSE [num |-> num, den |-> den]

\* Math.max(0, x), Math.min(100, x)
AtLeastZero(x) == IF x.num < 0 THEN Fraction(0, 1) ELSE x
AtMostHundred(x) == IF x.num > 100 * x.den THEN Fraction(100, 1) ELSE x

\* meanPercent without the clamp.
MeanPercent_Unclamped(stats) ==
    IF \/ ~IsSome(stats.minimum)
       \/ ~IsSome(stats.maximum)
       \/ ~IsSome(stats.mean)
       \/ stats.maximum = stats.minimum
    THEN None
    ELSE Some(Fraction((Get(stats.mean) - Get(stats.minimum)) * 100,
                       Get(stats.maximum) - Get(stats.minimum)))

\* The meanPercent summarizeNumeric computes for one column.
MeanPercent(stats) ==
    IF \/ ~IsSome(stats.minimum)
       \/ ~IsSome(stats.maximum)
       \/ ~IsSome(stats.mean)
       \/ stats.maximum = stats.minimum
    THEN None
    ELSE LET range == Get(stats.maximum) - Get(stats.minimum)
             percent == Fraction((Get(stats.mean) - Get(stats.minimum)) * 100, range)
         IN Some(AtMostHundred(AtLeastZero(percent)))

summarizeNumeric(summary) ==
    IF ~IsSome(summary) THEN <<>>
    ELSE LET entries == Get(summary).numeric_summary
         IN [i \in 1..Len(entries) |->
                [field |-> entries[i].key,
                 mean |-> entries[i].value.mean,
                 minimum |-> entries[i].value.minimum,
                 maximum |-> entries[i].value.maximum,
                 meanPercent |-> MeanPercent(entries[i].value)]]

\* String(value) of a cell, "-" for null and undefined.
CellText(value) ==
    IF value.kind \in {"null", "undefined"} THEN "-"
    ELSE IF value.kind = "number" THEN ToString(value.num)
    ELSE value.text

buildSampleRows(summary) ==
    IF ~IsSome(summary) THEN [headers |-> <<>>, rows |-> <<>>]
    ELSE IF Len(Get(summary).sample_records) = 0 THEN [headers |-> <<>>, rows |-> <<>>]
    ELSE LET records == Get(summary).sample_records
             headers == Keys(records[1])
             shown == Slice(records, SampleLimit)
         IN [headers |-> headers,
             rows |-> [r \in 1..Len(shown) |->
                          [h \in 1..Len(headers) |-> CellText(Field(shown[r], headers[h]))]]]

\* connections.find((item) => item.id === selectedId) ?? null
selected ==
    IF IsSome(selectedId) /\ \E i \in 1..Len(pageConnections) : pageConnections[i].id = Get(selectedId)
    THEN Some(pageConnections[CHOOSE i \in 1..Len(pageConnections) :
                 /\ pageConnections[i].id = Get(selectedId)
                 /\ \A k \in 1..(i - 1) : pageConnections[k].id # Get(selectedId)])
    ELSE None

\* selected?.last_ingestion_summary ?? null
selectedSummary ==
    IF IsSome(selected) THEN SummaryContent(Get(selected).last_ingestion_summary) ELSE None

numericSummary == summarizeNumeric(selectedSummary)
sampleTable == buildSampleRows(selectedSummary)
presets == recommendPresets(selectedSummary)

\* The records of the raw JSON view.
rawSampleJson == Slice(Get(selectedSummary).sample_records, SampleLimit)

SampleDataShown == IsSome(selectedSummary) /\ Len(sampleTable.headers) > 0

\* The headings of the summary card, in the order they are rendered.
DashboardHeadings ==
    IF ~IsSome(selectedSummary) THEN <<>>
    ELSE (IF Len(numericSummary) > 0 THEN <<"Numeric summary">> ELSE <<>>)
         \o (IF Len(sampleTable.headers) > 0 THEN <<"Sample data">> ELSE <<>>)
         \o (IF Len(presets) > 0 THEN <<"Suggested visualizations">> ELSE <<>>)

\* The img elements of the dashboard: it renders none.
DashboardImages == <<>>
(***************************************************************************)
(* visualization-preview: the time-series chart of a preset.               *)
(***************************************************************************)
MaxLines == 3

isNumeric(value) == value.kind = "number"

\* parseDate(value) is not null
parseDate(value) == value.kind = "string" /\ value.text \in TimestampTexts

\* The chart of a time-series preset: None when there is not enough data,
\* else the field of the x axis and the keys of the lines drawn.
TimeSeriesChart(summary, field) ==
    LET data == SelectSeq(summary.sample_records,
                          LAMBDA record :
                              /\ parseDate(Field(record, field))
                              /\ \E i \in 1..Len(record) : isNumeric(record[i].value))
        numericKeys == SelectSeq(summary.schema_fields,
                                 LAMBDA key :
                                     \E r \in 1..Len(data) : isNumeric(Field(data[r], key)))
    IN IF Len(data) < 2 \/ Len(numericKeys) = 0 THEN None
       ELSE Some([x |-> field, lines |-> Slice(numericKeys, MaxLines)])

(***************************************************************************)
(* data-analysis-modal: the wizard's View Analysis dialog, given the       *)
(* summary of jobStatus.                                                   *)
(***************************************************************************)
\* jobStatus?.summary ?? null
modalSummary ==
    IF IsSome(jobStatus) THEN SummaryContent(Get(jobStatus).summary) ELSE None

\* String(record[column] ?? "")
SampleCellText(value) ==
    IF value.kind \in {"null", "undefined"} THEN ""
    ELSE IF value.kind = "number" THEN ToString(value.num)
    ELSE value.text

renderSamples(summary) ==
    IF Len(summary.sample_records) = 0 THEN [columns |-> <<>>, rows |-> <<>>]
    ELSE LET records == summary.sample_records
             columns == Keys(records[1])
         IN [columns |-> columns,
             rows |-> [r \in 1..Len(records) |->
                          [c \in 1..Len(columns) |->
                              SampleCellText(Field(records[r], columns[c]))]]]

\* The figures of the gallery: the img's alt text and the caption.
renderGeneratedVisuals(summary) ==
    [i \in 1..Len(summary.visualizations) |->
        LET artifact == summary.visualizations[i]
        IN [alt |-> <<artifact.title, " chart for ", artifact.column>>,
            title |-> artifact.title,
            description |-> IF artifact.description \in {NULL, ""} THEN NULL
                            ELSE artifact.description]]

\* The headings of the dialog's sections.
ModalHeadings ==
    IF ~showAnalysisModal \/ ~IsSome(modalSummary) THEN <<>>
    ELSE <<"Summary", "Schema", "Numeric summary", "Numeric distributions (histograms)",
           "Categorical summary", "Categorical distributions", "Generated charts",
           "Descriptive statistics", "Sample records">>

\* The View Analysis button is rendered with a job that carries a summary.
ViewAnalysisShown == IsSome(modalSummary)

OpenAnalysis ==
    /\ ViewAnalysisShown
    /\ ~showAnalysisModal
    /\ showAnalysisModal' = TRUE
    /\ UNCHANGED <<wizardVars, asyncVars, serverVars, ghostVars, homeVars, aiVars,
                   showRaw, summaryOf, showHistory, filterText>>

CloseAnalysis ==
    /\ showAnalysisModal
    /\ showAnalysisModal' = FALSE
    /\ UNCHANGED <<wizardVars, asyncVars, serverVars, ghostVars, homeVars, aiVars,
                   showRaw, summaryOf, showHistory, filterText>>

\* The View JSON / View table toggle of the dashboard.
ToggleRaw ==
    /\ SampleDataShown
    /\ showRaw' = ~showRaw
    /\ UNCHANGED <<wizardVars, asyncVars, serverVars, ghostVars, homeVars, aiVars,
                   showAnalysisModal, summaryOf, showHistory, filterText>>

(***************************************************************************)
(* HomePage.  fetchConnections is a callback of a render and holds the     *)
(* selectedId of that render (useCallback on [selectedId]); a pending call *)
(* is kept with the selectedId it holds.  The effect calls the             *)
(* fetchConnections of a render whenever selectedId has changed, and once  *)
(* on mount.  The state updates of a handler are rendered together; the    *)
(* effect of that render runs before the next event.                       *)
(***************************************************************************)
ListRequest == Request("GET", ConnectionsUrl, None)

FreeFetchSlots == Cardinality({i \in FetchSlots : fetches[i] = None})

\* fetchConnections up to its await: the pending calls after a call of the
\* callback that holds `held`.
Called(fs, held) == [fs EXCEPT ![FreeSlot(fs)] = Some([selectedId |-> held])]

\* useEffect without its dependency list: the effect of every render.
Effect_EveryRender(fs, before, after) ==
    IF \E i \in DOMAIN fs : fs[i] = None THEN Called(fs, after) ELSE fs

\* useEffect on [fetchConnections]
Effect(fs, before, after) == IF after # before THEN Called(fs, after) ELSE fs

\* GET /connections answers with the stored connections; the repository
\* fixes no order of the list.
Orders(items) ==
    {[i \in 1..Len(items) |-> items[p[i]]] :
        p \in {q \in [1..Len(items) -> 1..Len(items)] :
                  \A i, j \in 1..Len(items) : q[i] = q[j] => i = j}}

\* setSelectedId(id) of a click, and the effect of the render.
Select(id) ==
    /\ Some(id) # selectedId => FreeFetchSlots >= 1
    /\ selectedId' = Some(id)
    /\ fetches' = Effect(fetches, selectedId, Some(id))
    /\ isLoading' = (Some(id) # selectedId \/ isLoading)
    /\ pageErrorMessage' = IF Some(id) # selectedId THEN NULL ELSE pageErrorMessage
    /\ Emits("select", id, IF Some(id) # selectedId THEN <<ListRequest>> ELSE <<>>, <<>>)
    /\ reported' = None
    /\ UNCHANGED pageConnections

\* The dashboard lists connections[0]; a click selects it.
onSelect ==
    /\ Len(pageConnections) > 0
    /\ Select(pageConnections[1].id)
    /\ UNCHANGED <<wizardVars, asyncVars, serverVars, tested, everCompleted, viewVars, aiVars>>

\* The history dialog's onSelect, the dialog opened and closed in between:
\* any connection of connections.slice(1).
onHistorySelect(id) ==
    /\ \E i \in 2..Len(pageConnections) : pageConnections[i].id = id
    /\ Select(id)
    /\ UNCHANGED <<wizardVars, asyncVars, serverVars, tested, everCompleted, viewVars, aiVars>>

\* fetchConnections after its await, response ok: the list is shown, and a
\* list without the selectedId the call holds selects its first item.
FetchOk(slot, items) ==
    /\ IsSome(fetches[slot])
    /\ LET held == Get(fetches[slot]).selectedId
           found == \E i \in 1..Len(items) : Some(items[i].id) = held
           after == IF Len(items) > 0 /\ ~found THEN Some(items[1].id) ELSE selectedId
       IN /\ pageConnections' = items
          /\ selectedId' = after
          /\ fetches' = Effect([fetches EXCEPT ![slot] = None], selectedId, after)
          /\ isLoading' = (after # selectedId)
          /\ pageErrorMessage' = IF after # selectedId THEN NULL ELSE pageErrorMessage
          /\ Emits("fetchOk", slot,
                   IF after # selectedId THEN <<ListRequest>> ELSE <<>>, <<>>)
    /\ UNCHANGED reported
    /\ UNCHANGED <<wizardVars, asyncVars, serverVars, tested, everCompleted, viewVars, aiVars>>

\* A fetchConnections call that ends in its catch block.
FetchFails(slot, message) ==
    /\ IsSome(fetches[slot])
    /\ pageErrorMessage' = message
    /\ isLoading' = FALSE
    /\ fetches' = [fetches EXCEPT ![slot] = None]
    /\ reported' = None
    /\ UNCHANGED <<pageConnections, selectedId>>
    /\ UNCHANGED <<wizardVars, asyncVars, serverVars, tested, everCompleted, viewVars, aiVars>>

FetchNotOk(slot) ==
    /\ FetchFails(slot, "Failed to retrieve saved connections.")
    /\ Emits("fetchNotOk", slot, <<>>, <<>>)

FetchThrows(slot, e) ==
    /\ FetchFails(slot, ErrorText(e, "Error while loading saved connections."))
    /\ Emits("fetchThrows", slot, <<>>, <<>>)

\* handleConnectionSaved and handleJobCompleted of the render in which
\* selectedId was `held`: setSelectedId(id), the fetchConnections of that
\* render, and the effect of the render that follows.
handleConnectionSaved(id, held) ==
    /\ FreeFetchSlots >= (IF Some(id) # selectedId THEN 2 ELSE 1)
    /\ selectedId' = Some(id)
    /\ fetches' = Effect(Called(fetches, held), selectedId, Some(id))
    /\ isLoading' = TRUE
    /\ pageErrorMessage' = NULL
    /\ reported' = Some(id)
    /\ UNCHANGED pageConnections

\* The wizard inside HomePage: the call of handleSaveConnection holds the
\* onConnectionSaved of the render of its click.
SaveOkInPage(slot) ==
    /\ SaveStored(slot)
    /\ handleConnectionSaved(Len(connections) + 1, Get(saves[slot]).selectedId)
    /\ Emits("saveOk", slot,
             IF Some(Len(connections) + 1) # selectedId
             THEN <<ListRequest, ListRequest>> ELSE <<ListRequest>>,
             <<[fn |-> "onConnectionSaved", id |-> Len(connections) + 1]>>)
    /\ UNCHANGED <<viewVars, aiVars>>

(***************************************************************************)
(* The specification of the dashboard: an ingestion of the wizard's        *)
(* connection has completed (or none has run yet), HomePage has fetched    *)
(* the list, and the user looks at the summary: selects the listed         *)
(* connection, toggles the raw sample view, opens and closes the analysis  *)
(* dialog.  The content of the summary is drawn from the sets below.       *)
(***************************************************************************)
Summary(fields, records, numeric, visuals) ==
    [record_count |-> Len(records), schema_fields |-> fields, sample_records |-> records,
     numeric_summary |-> numeric, visualizations |-> visuals]

EmptySummary == Summary(<<>>, <<>>, <<>>, <<>>)

Stats(mean, minimum, maximum) == [mean |-> mean, minimum |-> minimum, maximum |-> maximum]

\* Sequences of at most n elements of a set.
RECURSIVE SeqsUpTo(_, _)
SeqsUpTo(S, n) ==
    IF n = 0 THEN {<<>>}
    ELSE SeqsUpTo(S, n - 1)
         \cup {Append(s, e) : s \in {q \in SeqsUpTo(S, n - 1) : Len(q) = n - 1}, e \in S}

\* Summaries of a feed with a text column c, a time column t and a number
\* column n, some values missing or unparseable.
PresetRecords ==
    {<<Entry("c", c), Entry("t", t), Entry("n", n)>> :
        c \in {Str("x"), Nil}, t \in {Str("2024-01-01"), Str("n/a"), Nil}, n \in {Num(1), Nil}}

PresetNumerics ==
    {<<>>,
     <<Entry("n", Stats(Some(1), Some(0), Some(4))), Entry("m", Stats(None, None, None))>>}

PresetSummaries ==
    {Summary(fields, records, numeric, <<>>) :
        fields \in {<<"c", "t", "n">>, <<"t", "c", "n">>},
        records \in SeqsUpTo(PresetRecords, MaxRecords),
        numeric \in PresetNumerics}

\* Summaries of one numeric column with every combination of statistics.
StatValues == {None, Some(0), Some(1), Some(4)}

NumericSummaries ==
    {Summary(<<"n">>, <<>>, <<Entry("n", Stats(mean, minimum, maximum))>>, <<>>) :
        mean \in StatValues, minimum \in StatValues, maximum \in StatValues}

\* Summaries with 0 .. MaxSamples sample records.
SampleSummaries ==
    {Summary(<<"n">>, [i \in 1..k |-> <<Entry("n", Num(i))>>], <<>>, <<>>) : k \in 0..MaxSamples}

\* Summaries with chart artifacts.
Artifacts ==
    {[column |-> "n", chart_type |-> "histogram", title |-> "Value Distribution",
      image_base64 |-> "iVBOR", description |-> d] : d \in {"Quick look at value spread", NULL}}

VisualSummaries ==
    {Summary(<<"n">>, <<>>, <<>>, visuals) : visuals \in SeqsUpTo(Artifacts, 2)}

\* Summaries of a sparse feed: a record may omit the column a, the column
\* b, or both.
SparseRecords ==
    {<<>>, <<Entry("b", Num(2))>>}
    \cup {<<Entry("a", v)>> : v \in {Num(1), Nil}}
    \cup {<<Entry("a", v), Entry("b", Num(2))>> : v \in {Num(1), Nil}}

SparseSummaries ==
    {Summary(<<"a", "b">>, records, <<>>, <<>>) : records \in SeqsUpTo(SparseRecords, MaxRecords)}

SummaryInputs ==
    PresetSummaries \cup NumericSummaries \cup SampleSummaries \cup VisualSummaries
    \cup SparseSummaries

FilledForm == [initialState EXCEPT !.portalName = TextA, !.datasetId = TextA,
                                   !.baseUrl = TextA, !.path = TextA]

\* Connection 1 was stored on an earlier visit; connection 2 is the one
\* the wizard tested and saved, and ingested when `ingested`.
InitDashboard ==
    \E ingested \in BOOLEAN, content \in SummaryInputs \cup {EmptySummary} :
        LET job == Completed(PickedUp(NewJob(1, 2)), "summary A")
            stored == <<[StoredConnection(1, buildPayload(FilledForm))
                            EXCEPT !.last_ingestion_summary = "summary B"],
                        [StoredConnection(2, buildPayload(FilledForm))
                            EXCEPT !.last_ingestion_summary =
                                       IF ingested THEN "summary A" ELSE NULL]>>
        IN /\ ingested \/ content = EmptySummary
           /\ summaryOf = [name \in Summaries |->
                              IF name = "summary A" THEN content ELSE EmptySummary]
           /\ form = FilledForm
           /\ status = "success"
           /\ result = Some(CHOOSE r \in TestResponses : r.success)
           /\ errorMessage = NULL
           /\ connectionId = Some(2)
           /\ saveState = "saved"
           /\ saveError = NULL
           /\ jobStatus = IF ingested THEN Some(job) ELSE None
           /\ ingestState = IF ingested THEN "completed" ELSE "idle"
           /\ ingestError = NULL
           /\ tests = [i \in TestSlots |-> None]
           /\ saves = [i \in SaveSlots |-> None]
           /\ runs = [i \in RunSlots |-> None]
           /\ connections = stored
           /\ jobs = IF ingested THEN <<job>> ELSE <<>>
           /\ sentNow = <<>>
           /\ calledNow = <<>>
           /\ lastEvent = Event("init", 0)
           /\ tested = Some(buildPayload(FilledForm))
           /\ everCompleted = IF ingested THEN {1} ELSE {}
           /\ pageConnections = stored
           /\ selectedId = Some(2)
           /\ isLoading = FALSE
           /\ pageErrorMessage = NULL
           /\ fetches = [i \in FetchSlots |-> None]
           /\ reported = None
           /\ showRaw = FALSE
           /\ showAnalysisModal = FALSE
           /\ showHistory = FALSE
           /\ filterText = EmptyText
           /\ question = EmptyText
           /\ answer = ""
           /\ loading = FALSE
           /\ error = NULL
           /\ analyses = [i \in AnalysisSlots |-> None]

NextDashboard ==
    \/ onSelect
    \/ \E id \in 1..MaxConnections : onHistorySelect(id)
    \/ \E slot \in FetchSlots, items \in Orders(connections) : FetchOk(slot, items)
    \/ \E slot \in FetchSlots : FetchNotOk(slot)
    \/ \E slot \in FetchSlots, e \in ThrownErrors : FetchThrows(slot, e)
    \/ ToggleRaw
    \/ OpenAnalysis
    \/ CloseAnalysis

SpecDashboard == InitDashboard /\ [][NextDashboard]_vars

(***************************************************************************)
(* The specification of HomePage: the page has mounted and its effect has  *)
(* called fetchConnections; the repository holds the connections of        *)
(* earlier visits; the wizard shows a successful test.  The user saves     *)
(* the connection and selects connections while the fetches of the list    *)
(* are answered in any order.                                              *)
(***************************************************************************)
InitHome ==
    \E earlier \in 0..(MaxConnections - 1) :
        /\ form = FilledForm
        /\ errorMessage = NULL
        /\ connectionId = None
        /\ saveState = "idle"
        /\ saveError = NULL
        /\ jobStatus = None
        /\ ingestState = "idle"
        /\ ingestError = NULL
        /\ tests = [i \in TestSlots |-> None]
        /\ saves = [i \in SaveSlots |-> None]
        /\ runs = [i \in RunSlots |-> None]
        /\ jobs = <<>>
        /\ sentNow = <<ListRequest>>
        /\ calledNow = <<>>
        /\ lastEvent = Event("mount", 0)
        /\ everCompleted = {}
        /\ status = "success"
        /\ result = Some(CHOOSE r \in TestResponses : r.success)
        /\ tested = Some(buildPayload(FilledForm))
        /\ connections = [i \in 1..earlier |->
                             [StoredConnection(i, buildPayload(FilledForm))
                                 EXCEPT !.last_ingestion_summary = "summary B"]]
        /\ pageConnections = <<>>
        /\ selectedId = None
        /\ isLoading = TRUE
        /\ pageErrorMessage = NULL
        /\ fetches = Called([i \in FetchSlots |-> None], None)
        /\ reported = None
        /\ showRaw = FALSE
        /\ showAnalysisModal = FALSE
        /\ showHistory = FALSE
        /\ filterText = EmptyText
        /\ summaryOf = [name \in Summaries |-> EmptySummary]
        /\ question = EmptyText
        /\ answer = ""
        /\ loading = FALSE
        /\ error = NULL
        /\ analyses = [i \in AnalysisSlots |-> None]

NextHome ==
    \/ handleSaveConnection
    \/ \E slot \in SaveSlots : SaveOkInPage(slot)
    \/ \E slot \in SaveSlots, detail \in ErrorDetails : SaveNotOk(slot, detail)
    \/ \E slot \in SaveSlots, e \in ThrownErrors : SaveThrows(slot, e)
    \/ \E slot \in FetchSlots, items \in Orders(connections) : FetchOk(slot, items)
    \/ \E slot \in FetchSlots : FetchNotOk(slot)
    \/ \E slot \in FetchSlots, e \in ThrownErrors : FetchThrows(slot, e)
    \/ onSelect
    \/ \E id \in 1..MaxConnections : onHistorySelect(id)

SpecHome == InitHome /\ [][NextHome]_vars

(***************************************************************************)
(* The specification of handleIngestion as a function: the steps of Spec,  *)
(* and handleIngestion called whatever the Run ingestion button shows      *)
(* (the button is disabled without a saved connection and during a run).   *)
(***************************************************************************)
NextIngest ==
    \/ Next
    \/ handleIngestion

SpecIngest == Init /\ [][NextIngest]_vars

(***************************************************************************)
(* AiInsightsPanel.  The dashboard renders it in the summary card of the   *)
(* selected connection with connectionId = selected.id and canAnalyze =    *)
(* Boolean(selected.last_ingestion_summary); it has no key, so its state   *)
(* stays when another connection is selected.  The textarea and the        *)
(* submit button are disabled unless canAnalyze and not loading.           *)
(***************************************************************************)
AnalysisUrl(cid) == Url("/connections/{id}/analysis", cid, 0)

panelConnectionId == IF IsSome(selected) THEN Some(Get(selected).id) ELSE None

canAnalyze == IsSome(selected) /\ Get(selected).last_ingestion_summary # NULL

PanelEnabled == IsSome(selected) /\ canAnalyze /\ ~loading

\* Texts the user types as a question.
QuestionTexts == {EmptyText, TextBlank, TextA}

\* Answers of POST /connections/{id}/analysis to the request of a slot:
\* prose about the connection of the request, or no answer field.
AnswerAbout(cid) ==
    IF cid = 1 THEN "prose about connection 1" ELSE "prose about connection 2"

AnalysisAnswers(slot) ==
    IF IsSome(analyses[slot])
    THEN {[answer |-> AnswerAbout(Get(analyses[slot]).connectionId)], [answer |-> NULL]}
    ELSE {}

\* onChange of the textarea
setQuestion(text) ==
    /\ PanelEnabled
    /\ text # question
    /\ question' = text
    /\ Emits("question", 0, <<>>, <<>>)
    /\ UNCHANGED <<answer, loading, error, analyses>>
    /\ UNCHANGED <<wizardVars, asyncVars, serverVars, tested, everCompleted, homeVars, viewVars>>

\* AiInsightsPanel.handleSubmit, up to its await.
handleSubmitQuestion ==
    IF ~IsSome(panelConnectionId) \/ Trim(question) = EmptyText
    THEN /\ error' = "Please enter a question before submitting."
         /\ Emits("analysisRejected", 0, <<>>, <<>>)
         /\ UNCHANGED <<question, answer, loading, analyses>>
         /\ UNCHANGED <<wizardVars, asyncVars, serverVars, tested, everCompleted,
                        homeVars, viewVars>>
    ELSE /\ InFlightOf(analyses) < MaxInFlight
         /\ loading' = TRUE
         /\ error' = NULL
         /\ answer' = ""
         /\ analyses' = [analyses EXCEPT ![FreeSlot(analyses)] =
                            Some([connectionId |-> Get(panelConnectionId),
                                  question |-> question])]
         /\ Emits("analysisStart", FreeSlot(analyses),
                  <<Request("POST", AnalysisUrl(Get(panelConnectionId)),
                            Some([question |-> question]))>>, <<>>)
         /\ UNCHANGED question
         /\ UNCHANGED <<wizardVars, asyncVars, serverVars, tested, everCompleted,
                        homeVars, viewVars>>

\* A click on Request Analysis.
ClickRequestAnalysis == PanelEnabled /\ handleSubmitQuestion

\* The finally block of handleSubmit
AnalysisSettles(slot) ==
    /\ IsSome(analyses[slot])
    /\ loading' = FALSE
    /\ analyses' = [analyses EXCEPT ![slot] = None]
    /\ UNCHANGED question
    /\ UNCHANGED <<wizardVars, asyncVars, serverVars, tested, everCompleted, homeVars, viewVars>>

AnalysisOk(slot, data) ==
    /\ AnalysisSettles(slot)
    /\ answer' = Coalesce(data.answer, "")
    /\ Emits("analysisOk", slot, <<>>, <<>>)
    /\ UNCHANGED error

AnalysisNotOk(slot, detail) ==
    /\ AnalysisSettles(slot)
    /\ error' = Coalesce(detail, "Failed to request AI analysis.")
    /\ Emits("analysisNotOk", slot, <<>>, <<>>)
    /\ UNCHANGED answer

\* AnalysisThrows with no finally block.
AnalysisThrows_NoFinally(slot, e) ==
    /\ IsSome(analyses[slot])
    /\ analyses' = [analyses EXCEPT ![slot] = None]
    /\ error' = ErrorText(e, "An unexpected error occurred.")
    /\ Emits("analysisThrows", slot, <<>>, <<>>)
    /\ UNCHANGED <<question, answer, loading>>
    /\ UNCHANGED <<wizardVars, asyncVars, serverVars, tested, everCompleted, homeVars, viewVars>>

AnalysisThrows(slot, e) ==
    /\ AnalysisSettles(slot)
    /\ error' = ErrorText(e, "An unexpected error occurred.")
    /\ Emits("analysisThrows", slot, <<>>, <<>>)
    /\ UNCHANGED answer

(***************************************************************************)
(* The specification of the panel: the dashboard shows connection 1 with   *)
(* a summary and connection 2 with or without one; the user selects        *)
(* connections, types questions and requests analyses, which are answered  *)
(* in every way the handler tells apart.                                   *)
(***************************************************************************)
InitInsights == InitDashboard /\ summaryOf["summary A"] = EmptySummary

NextInsights ==
    \/ \E text \in QuestionTexts : setQuestion(text)
    \/ ClickRequestAnalysis
    \/ \E slot \in AnalysisSlots : \E data \in AnalysisAnswers(slot) : AnalysisOk(slot, data)
    \/ \E slot \in AnalysisSlots, detail \in ErrorDetails : AnalysisNotOk(slot, detail)
    \/ \E slot \in AnalysisSlots, e \in ThrownErrors : AnalysisThrows(slot, e)
    \/ onSelect
    \/ \E id \in 1..MaxConnections : onHistorySelect(id)
    \/ \E slot \in FetchSlots, items \in Orders(connections) : FetchOk(slot, items)
    \/ \E slot \in FetchSlots : FetchNotOk(slot)
    \/ \E slot \in FetchSlots, e \in ThrownErrors : FetchThrows(slot, e)

SpecInsights == InitInsights /\ [][NextInsights]_vars

(***************************************************************************)
(* The specification of overlapping calls: the wizard shows a successful   *)
(* test of a filled form, and one call more than in Spec may await at a    *)
(* time, so that the user edits, tests and saves while a run polls.        *)
(***************************************************************************)
OverlapSlots == 1..(MaxInFlight + 1)

OverlapEdits == {<<"apiKeyName", TextK>>}

InitOverlap ==
    /\ form = FilledForm
    /\ status = "success"
    /\ result = Some(CHOOSE r \in TestResponses : r.success)
    /\ errorMessage = NULL
    /\ connectionId = None
    /\ saveState = "idle"
    /\ saveError = NULL
    /\ jobStatus = None
    /\ ingestState = "idle"
    /\ ingestError = NULL
    /\ tests = [i \in OverlapSlots |-> None]
    /\ saves = [i \in OverlapSlots |-> None]
    /\ runs = [i \in OverlapSlots |-> None]
    /\ connections = <<>>
    /\ jobs = <<>>
    /\ sentNow = <<>>
    /\ calledNow = <<>>
    /\ lastEvent = Event("testOk", 1)
    /\ tested = Some(buildPayload(FilledForm))
    /\ everCompleted = {}
    /\ InitPage

NextOverlap ==
    \/ \E e \in OverlapEdits : handleFieldChange(e[1], e[2])
    \/ handleSubmit
    \/ \E slot \in OverlapSlots, data \in TestSuccess : TestOk(slot, data)
    \/ handleSaveConnection
    \/ \E slot \in OverlapSlots : SaveOk(slot)
    \/ \E slot \in OverlapSlots : SaveNotOk(slot, None)
    \/ ClickRunIngestion
    \/ \E slot \in OverlapSlots : IngestOk(slot)
    \/ \E slot \in OverlapSlots : PollTimer(slot)
    \/ \E slot \in OverlapSlots : PollOk(slot)
    \/ \E j \in 1..MaxJobs : WorkerPickup(j)
    \/ \E j \in 1..MaxJobs, summary \in {"summary A"} : WorkerCompletes(j, summary)

SpecOverlap == InitOverlap /\ [][NextOverlap]_vars

(***************************************************************************)
(* The specification of HomePage's effect loop: the page has mounted and   *)
(* its effect has called fetchConnections; the repository holds a list of  *)
(* connections that does not change (nothing is saved); the user selects   *)
(* listed connections.  Every call of fetchConnections is answered: its    *)
(* continuation runs when the response or the network error arrives.       *)
(***************************************************************************)
InitQuiesce ==
    \E stored \in 0..MaxConnections :
        /\ form = initialState
        /\ status = "idle"
        /\ result = None
        /\ errorMessage = NULL
        /\ connectionId = None
        /\ saveState = "idle"
        /\ saveError = NULL
        /\ jobStatus = None
        /\ ingestState = "idle"
        /\ ingestError = NULL
        /\ tests = [i \in TestSlots |-> None]
        /\ saves = [i \in SaveSlots |-> None]
        /\ runs = [i \in RunSlots |-> None]
        /\ jobs = <<>>
        /\ sentNow = <<ListRequest>>
        /\ calledNow = <<>>
        /\ lastEvent = Event("mount", 0)
        /\ tested = None
        /\ everCompleted = {}
        /\ connections = [i \in 1..stored |->
                             [StoredConnection(i, buildPayload(FilledForm))
                                 EXCEPT !.last_ingestion_summary = "summary B"]]
        /\ pageConnections = <<>>
        /\ selectedId = None
        /\ isLoading = TRUE
        /\ pageErrorMessage = NULL
        /\ fetches = Called([i \in FetchSlots |-> None], None)
        /\ reported = None
        /\ showRaw = FALSE
        /\ showAnalysisModal = FALSE
        /\ showHistory = FALSE
        /\ filterText = EmptyText
        /\ summaryOf = [name \in Summaries |-> EmptySummary]
        /\ question = EmptyText
        /\ answer = ""
        /\ loading = FALSE
        /\ error = NULL
        /\ analyses = [i \in AnalysisSlots |-> None]

FetchAnswered(slot) ==
    \/ \E items \in Orders(connections) : FetchOk(slot, items)
    \/ FetchNotOk(slot)
    \/ \E e \in ThrownErrors : FetchThrows(slot, e)

NextQuiesce ==
    \/ \E slot \in FetchSlots : FetchAnswered(slot)
    \/ onSelect
    \/ \E id \in 1..MaxConnections : onHistorySelect(id)

SpecQuiesce ==
    /\ InitQuiesce
    /\ [][NextQuiesce]_vars
    /\ \A slot \in FetchSlots : WF_vars(FetchAnswered(slot))

(***************************************************************************)
(* HistoryModal and the list of the dashboard.  Texts are sequences of     *)
(* characters; the letters of the model come in two cases.                 *)
(***************************************************************************)
UpperCase == {"A", "B", "K"}

\* String.prototype.toLowerCase, character by character.
LowerOf(c) ==
    CASE c = "A" -> "a"
      [] c = "B" -> "b"
      [] c = "K" -> "k"
      [] OTHER -> c

toLowerCase(t) == [i \in 1..Len(t) |-> LowerOf(t[i])]

\* String.prototype.includes
includes(t, keyword) ==
    \E start \in 0..(Len(t) - Len(keyword)) :
        SubSeq(t, start + 1, start + Len(keyword)) = keyword

\* Array.prototype.slice(1)
SliceFrom1(items) == SubSeq(items, 2, Len(items))

\* filterConnections comparing the fields as they are stored.
filterConnections_CaseSensitive(cs, text) ==
    IF ~Truthy(Trim(text)) THEN cs
    ELSE LET keyword == toLowerCase(text)
             Keeps(connection) ==
                 \/ includes(connection.portal_name, keyword)
                 \/ includes(connection.dataset_id, keyword)
         IN SelectSeq(cs, Keeps)

filterConnections(cs, text) ==
    IF ~Truthy(Trim(text)) THEN cs
    ELSE LET keyword == toLowerCase(text)
             Keeps(connection) ==
                 \/ includes(toLowerCase(connection.portal_name), keyword)
                 \/ includes(toLowerCase(connection.dataset_id), keyword)
         IN SelectSeq(cs, Keeps)

\* HistoryModal's filtered, and the connections its list offers.
filtered == filterConnections(SliceFrom1(pageConnections), filterText)

HistoryOffered ==
    IF ~showHistory \/ Len(pageConnections) <= 1 THEN <<>> ELSE filtered

\* ConnectionsDashboard: the connections of its list, and whether the
\* View Connection History button is rendered.
DashboardOffered ==
    IF Len(pageConnections) = 0 THEN <<>> ELSE <<pageConnections[1]>>

HistoryEntryShown == Len(pageConnections) > 1

\* onHistoryOpen={() => setShowHistory(true)}
onHistoryOpen ==
    /\ HistoryEntryShown
    /\ ~showHistory
    /\ showHistory' = TRUE
    /\ Emits("historyOpen", 0, <<>>, <<>>)
    /\ UNCHANGED <<wizardVars, asyncVars, serverVars, tested, everCompleted, homeVars, aiVars,
                   showRaw, showAnalysisModal, summaryOf, filterText>>

\* onClose={() => setShowHistory(false)}; the dialog stays mounted and
\* keeps its filterText.
onClose ==
    /\ showHistory
    /\ showHistory' = FALSE
    /\ Emits("historyClose", 0, <<>>, <<>>)
    /\ UNCHANGED <<wizardVars, asyncVars, serverVars, tested, everCompleted, homeVars, aiVars,
                   showRaw, showAnalysisModal, summaryOf, filterText>>

\* onChange of the Search input, rendered for more than one connection.
setFilterText(text) ==
    /\ showHistory
    /\ Len(pageConnections) > 1
    /\ filterText' = text
    /\ Emits("filter", 0, <<>>, <<>>)
    /\ UNCHANGED <<wizardVars, asyncVars, serverVars, tested, everCompleted, homeVars, aiVars,
                   showRaw, showAnalysisModal, summaryOf, showHistory>>

\* handleSelect of a listed connection: HomePage's onSelect (setSelectedId
\* and setShowHistory(false), then the effect of the render) and onClose.
handleSelect(id) ==
    /\ \E i \in 1..Len(HistoryOffered) : HistoryOffered[i].id = id
    /\ Select(id)
    /\ showHistory' = FALSE
    /\ UNCHANGED <<wizardVars, asyncVars, serverVars, tested, everCompleted, aiVars,
                   showRaw, showAnalysisModal, summaryOf, filterText>>

(***************************************************************************)
(* The specification of the two lists: HomePage shows a fetched list of    *)
(* one to MaxListed connections whose names are drawn from the sets        *)
(* below; the user opens and closes the history dialog, types into its     *)
(* Search input and selects connections from either list, and the fetches  *)
(* of the list are answered with the same list.                            *)
(***************************************************************************)
MaxListed == 3

PortalNames == {<<"A">>, <<"a", "b">>, <<"B">>}
DatasetIds == {<<"b">>, <<"K">>}
FilterTexts ==
    {EmptyText, <<" ">>, <<"A">>, <<"a", "b">>, <<" ", "a">>, <<"k">>}

ListedConnections ==
    UNION {{[i \in 1..n |->
                [id |-> i, portal_name |-> names[i], dataset_id |-> datasets[i],
                 last_ingestion_summary |-> NULL]] :
               names \in [1..n -> PortalNames], datasets \in [1..n -> DatasetIds]} :
           n \in 1..MaxListed}

InitHistory ==
    \E listed \in ListedConnections :
        /\ form = initialState
        /\ status = "idle"
        /\ result = None
        /\ errorMessage = NULL
        /\ connectionId = None
        /\ saveState = "idle"
        /\ saveError = NULL
        /\ jobStatus = None
        /\ ingestState = "idle"
        /\ ingestError = NULL
        /\ tests = [i \in TestSlots |-> None]
        /\ saves = [i \in SaveSlots |-> None]
        /\ runs = [i \in RunSlots |-> None]
        /\ connections = listed
        /\ jobs = <<>>
        /\ sentNow = <<>>
        /\ calledNow = <<>>
        /\ lastEvent = Event("fetchOk", 1)
        /\ tested = None
        /\ everCompleted = {}
        /\ pageConnections = listed
        /\ selectedId = Some(listed[1].id)
        /\ isLoading = FALSE
        /\ pageErrorMessage = NULL
        /\ fetches = [i \in FetchSlots |-> None]
        /\ reported = None
        /\ showRaw = FALSE
        /\ showAnalysisModal = FALSE
        /\ showHistory = FALSE
        /\ filterText = EmptyText
        /\ summaryOf = [name \in Summaries |-> EmptySummary]
        /\ question = EmptyText
        /\ answer = ""
        /\ loading = FALSE
        /\ error = NULL
        /\ analyses = [i \in AnalysisSlots |-> None]

NextHistory ==
    \/ onHistoryOpen
    \/ onClose
    \/ \E text \in FilterTexts : setFilterText(text)
    \/ \E id \in 1..MaxListed : handleSelect(id)
    \/ onSelect
    \/ \E slot \in FetchSlots : FetchOk(slot, connections)

SpecHistory == InitHistory /\ [][NextHistory]_vars

(***************************************************************************)
(* Properties of the ingestion run, checked under Spec.                    *)
(***************************************************************************)
PollResponseKinds == {"pollCompleted", "pollFailed", "pollContinue", "pollTimeout"}
RunEndKinds == {"pollCompleted", "pollFailed", "pollTimeout", "pollNotOk", "pollThrows"}

IsStatusRequest(r) == r.method = "GET" /\ r.url.route = "/connections/{id}/ingest/{job_id}"

\* The step is the continuation of run `slot` on an ok status response.
PollResponseStep(slot) ==
    /\ AtPc(slot, "fetch")
    /\ runs'[slot] # runs[slot]
    /\ lastEvent' \in {Event(k, slot) : k \in PollResponseKinds}

\* C1: a run sends at most 12 status requests, each one after a 750 ms
\* wait of its own, and a status request is sent by nothing but the timer
\* of a run; when the 12th response is neither completed nor failed the
\* run ends there, in ingestState = "timeout".
C1_PollingIsBounded ==
    /\ [](/\ \A slot \in RunSlots :
                IsSome(runs[slot]) =>
                    LET run == Get(runs[slot])
                    IN /\ run.polls <= MaxAttempts
                       /\ run.waited = run.polls * PollIntervalMs
                       /\ run.polls = run.attempt + (IF run.pc = "fetch" THEN 1 ELSE 0)
          /\ (\E i \in 1..Len(sentNow) : IsStatusRequest(sentNow[i]))
                => /\ lastEvent.kind = "pollTimer"
                   /\ Len(sentNow) = 1
                   /\ AtPc(lastEvent.slot, "fetch"))
    /\ [][\A slot \in RunSlots :
            (/\ PollResponseStep(slot)
             /\ Get(runs[slot]).polls = MaxAttempts
             /\ jobs[Get(runs[slot]).jobId].status \notin TerminalStatuses)
            => /\ ingestState' = "timeout"
               /\ runs'[slot] = None
               /\ sentNow' = <<>>]_vars

\* C1 witness: a run has ended by the local timeout.
C1_Witness ==
    /\ lastEvent.kind = "pollTimeout"
    /\ ingestState = "timeout"
    /\ \A slot \in RunSlots : runs[slot] = None

\* A terminal job as the specification promises it to the consumer.
TerminalAndPopulated(job) ==
    \/ job.status = "completed" /\ job.summary # NULL
    \/ job.status = "failed" /\ (job.message # NULL \/ job.errors # <<>>)

\* C2 as claimed: every polling run finishes holding a terminal job,
\* completed with a summary or failed with a message/errors.
C2_EveryRunEndsWithTerminalJob ==
    lastEvent.kind \in RunEndKinds
        => IsSome(jobStatus) /\ TerminalAndPopulated(Get(jobStatus))

\* C2 amended: a run that ends on a response reporting completed or failed
\* finishes holding that job, completed with a summary or failed with a
\* message/errors; a run that ends by the local timeout finishes holding a
\* job still pending or running; a run that ends by a non-ok response or a
\* network error leaves the job on display as it was.
C2_RunEndsByKind ==
    /\ [](/\ lastEvent.kind \in {"pollCompleted", "pollFailed"}
                => /\ IsSome(jobStatus)
                   /\ TerminalAndPopulated(Get(jobStatus))
                   /\ Get(jobStatus).status =
                          (IF lastEvent.kind = "pollCompleted" THEN "completed" ELSE "failed")
          /\ lastEvent.kind = "pollTimeout"
                => IsSome(jobStatus) /\ Get(jobStatus).status \in ActiveStatuses)
    /\ [][lastEvent'.kind \in {"pollNotOk", "pollThrows"} => jobStatus' = jobStatus]_vars

\* C2 witness: a run has ended on a completed job.
C2_Witness ==
    /\ lastEvent.kind = "pollCompleted"
    /\ ingestState = "completed"
    /\ IsSome(jobStatus)
    /\ Get(jobStatus).summary \in Summaries

\* The step is the timeout exit of run `slot`.
TimeoutStep(slot) == PollResponseStep(slot) /\ lastEvent'.kind = "pollTimeout"

\* C3: the timeout exit sends nothing and changes nothing at the backend:
\* the job stays as it is, pending or running; the wizard gets
\* ingestState = "timeout", an ingestError, and as jobStatus the snapshot
\* the last response carried; the rest of its state is untouched.
C3_TimeoutIsLocal ==
    [][\A slot \in RunSlots :
         TimeoutStep(slot)
         => /\ sentNow' = <<>>
            /\ calledNow' = <<>>
            /\ UNCHANGED serverVars
            /\ jobs[Get(runs[slot]).jobId].status \in ActiveStatuses
            /\ ingestState' = "timeout"
            /\ ingestError' # NULL
            /\ jobStatus' = Some(jobs[Get(runs[slot]).jobId])
            /\ UNCHANGED <<form, status, result, errorMessage, connectionId,
                           saveState, saveError, tests, saves>>]_vars

\* C3 witness: after the wizard gave up, the job went on and completed.
C3_Witness ==
    /\ lastEvent.kind = "pollTimeout"
    /\ ingestState = "timeout"
    /\ IsSome(jobStatus)
    /\ Get(jobStatus).status \in ActiveStatuses
    /\ jobs[Get(jobStatus).job_id].status = "completed"

\* C4: a job the wizard has once been shown as completed is completed in
\* the job table from then on, so that every later response shows it
\* completed, and the wizard never displays it in another status.
C4_CompletedStaysCompleted ==
    \A j \in everCompleted :
        /\ jobs[j].status = "completed"
        /\ (IsSome(jobStatus) /\ Get(jobStatus).job_id = j)
               => Get(jobStatus).status = "completed"

\* C4 witness: the completed job is still on display after a later step
\* of the wizard.
C4_Witness ==
    /\ everCompleted # {}
    /\ IsSome(jobStatus)
    /\ Get(jobStatus).job_id \in everCompleted
    /\ lastEvent.kind = "submit"

ConnectionIds == 1..MaxConnections

\* The step is the continuation of run `slot` on the answer to its POST.
IngestAnswerStep(slot) ==
    /\ AtPc(slot, "start")
    /\ lastEvent' \in {Event(k, slot) : k \in {"ingestOk", "ingestOkAfterTimeout"}}
    /\ runs'[slot] # runs[slot]

\* C5: a connection has at most one pending or running job; a request for
\* a connection with such a job is answered with that job and creates none.
C5_OneActiveJobPerConnection ==
    /\ [](\A cid \in ConnectionIds : Cardinality(ActiveJobsOf(jobs, cid)) <= 1)
    /\ [][\A slot \in RunSlots :
            (IngestAnswerStep(slot) /\ ActiveJobsOf(jobs, Get(runs[slot]).connectionId) # {})
            => /\ jobs' = jobs
               /\ IsSome(jobStatus')
               /\ Get(jobStatus').job_id \in ActiveJobsOf(jobs, Get(runs[slot]).connectionId)]_vars

\* C5 witness: the request the wizard made after its own timeout was
\* answered with the job that is still running.
C5_Witness ==
    /\ lastEvent.kind = "ingestOkAfterTimeout"
    /\ IsSome(jobStatus)
    /\ Get(jobStatus).status = "running"
    /\ Len(jobs) = 1

\* The job snapshots there are: the job table, and the job on display.
Snapshots == {jobs[j] : j \in 1..Len(jobs)} \cup {jobStatus[i] : i \in 1..Len(jobStatus)}

\* C6: a completed snapshot carries a whole summary, and the summary of a
\* completed job never changes; a snapshot's summary is null or whole.
C6_SummaryWithCompleted ==
    /\ [](\A job \in Snapshots :
            /\ job.status = "completed" => job.summary \in Summaries
            /\ job.summary \in Summaries \cup {NULL})
    /\ [][\A j \in 1..Len(jobs) :
            jobs[j].status = "completed" => jobs'[j].summary = jobs[j].summary]_vars

\* C6 witness: the wizard displays a completed job with its summary.
C6_Witness ==
    /\ IsSome(jobStatus)
    /\ Get(jobStatus).status = "completed"
    /\ Get(jobStatus).summary = jobs[Get(jobStatus).job_id].summary
    /\ lastEvent.kind = "pollCompleted"

\* C7: a failed snapshot has its cause in message and errors, no summary,
\* and finished_at set.
C7_FailedSnapshot ==
    \A job \in Snapshots :
        job.status = "failed"
        => /\ job.message # NULL
           /\ job.errors # <<>>
           /\ job.summary = NULL
           /\ job.finished_at # NULL

\* C7 witness: the wizard displays a failed job.
C7_Witness ==
    /\ IsSome(jobStatus)
    /\ Get(jobStatus).status = "failed"
    /\ lastEvent.kind = "pollFailed"

\* C8: started_at is null in a pending snapshot; finished_at and summary
\* are null in a snapshot that is not completed or failed; a completed or
\* failed job keeps its status.
C8_SnapshotFields ==
    /\ [](\A job \in Snapshots :
            /\ job.status = "pending" => job.started_at = NULL
            /\ job.status \notin TerminalStatuses
                   => job.finished_at = NULL /\ job.summary = NULL)
    /\ [][\A j \in 1..Len(jobs) :
            jobs[j].status \in TerminalStatuses => jobs'[j].status = jobs[j].status]_vars

\* C8 witness: a job that ended, beside one that has not been picked up.
C8_Witness ==
    /\ Len(jobs) = 2
    /\ jobs[1].status \in TerminalStatuses
    /\ jobs[2].status = "pending"
    /\ IsSome(jobStatus)
    /\ Get(jobStatus).status = "pending"

(***************************************************************************)
(* Properties of the form, checked under SpecForm and SpecPayload.         *)
(***************************************************************************)
\* C9: a connection is saved only with the configuration that passed the
\* test: every change of the configuration made while a passed test is
\* shown (a field edit, a parameter edit, a row added or removed) takes the
\* wizard back to status "idle", where Save Connection is not offered.
C9_ChangeAfterTestResets ==
    [][(status = "success" /\ buildPayload(form') # buildPayload(form))
          => status' = "idle"]_vars

\* A text with a character that is not white space.
NonBlank(t) == \E i \in 1..Len(t) : t[i] \notin Spaces

\* A text without its leading and trailing white space.
Stripped(t) ==
    IF ~NonBlank(t) THEN <<>>
    ELSE LET first == CHOOSE i \in 1..Len(t) :
                          t[i] \notin Spaces /\ \A k \in 1..(i - 1) : t[k] \in Spaces
             last == CHOOSE i \in 1..Len(t) :
                          t[i] \notin Spaces /\ \A k \in (i + 1)..Len(t) : t[k] \in Spaces
         IN SubSeq(t, first, last)

\* The rows with a non-blank name and a non-blank value.
NonBlankRows(params) ==
    {i \in 1..Len(params) : NonBlank(params[i].name) /\ NonBlank(params[i].value)}

\* q holds the non-blank rows of params, stripped, in the order of the rows.
IsQueryOf(q, params) ==
    LET kept == NonBlankRows(params)
    IN /\ Len(q) = Cardinality(kept)
       /\ \A i \in kept :
             q[Cardinality({k \in kept : k <= i})] =
                 [name |-> Stripped(params[i].name), value |-> Stripped(params[i].value)]

\* C10: a submission sends one request, a POST to /connections/test, whose
\* body has the four texts and the format as the form holds them, each API
\* key field null when the input is empty and as entered otherwise, and as
\* query_parameters the rows with a non-blank name and value, stripped and
\* in row order.
C10_SubmitSendsFormAsPayload ==
    lastEvent.kind = "submit"
        => /\ Len(sentNow) = 1
           /\ sentNow[1].method = "POST"
           /\ sentNow[1].url = TestUrl
           /\ IsSome(sentNow[1].body)
           /\ LET body == Get(sentNow[1].body)
              IN /\ body.portal_name = form.portalName
                 /\ body.dataset_id = form.datasetId
                 /\ body.base_url = form.baseUrl
                 /\ body.path = form.path
                 /\ body.data_format = form.dataFormat
                 /\ body.api_key_name =
                        (IF Len(form.apiKeyName) = 0 THEN None ELSE Some(form.apiKeyName))
                 /\ body.api_key_value =
                        (IF Len(form.apiKeyValue) = 0 THEN None ELSE Some(form.apiKeyValue))
                 /\ IsQueryOf(body.query_parameters, form.parameters)
                 /\ DOMAIN body = {"portal_name", "dataset_id", "base_url", "path",
                                   "api_key_name", "api_key_value", "data_format",
                                   "query_parameters"}

\* C10 witness: a form with a padded portal name, no API key name, a
\* blank API key value, a row with a blank value and a padded row was
\* submitted; the body keeps the second row alone, stripped.
C10_Witness ==
    /\ lastEvent.kind = "submit"
    /\ form.portalName = <<" ", "a">>
    /\ form.apiKeyName = EmptyText
    /\ form.apiKeyValue = TextBlank
    /\ form.parameters = <<[name |-> TextK, value |-> TextBlank],
                           [name |-> TextPadded, value |-> TextK]>>
    /\ Len(sentNow) = 1
    /\ Get(sentNow[1].body).query_parameters = <<[name |-> TextA, value |-> TextK]>>
    /\ Get(sentNow[1].body).api_key_value = Some(TextBlank)

\* A connection test settles: the call kept in slot gets its answer.
TestSettles(slot) == IsSome(tests[slot]) /\ tests'[slot] = None

C12_DashboardShowsGeneratedCharts ==
    (IsSome(selectedSummary) /\ Len(Get(selectedSummary).visualizations) > 0)
        => /\ \E h \in 1..Len(DashboardHeadings) : DashboardHeadings[h] = "Generated charts"
           /\ \A a \in 1..Len(Get(selectedSummary).visualizations) :
                 \E g \in 1..Len(DashboardImages) :
                     /\ DashboardImages[g].alt[1] = Get(selectedSummary).visualizations[a].title
                     /\ DashboardImages[g].description =
                            Get(selectedSummary).visualizations[a].description

\* The presets of one type, in the order recommendPresets yields them.
PresetsOfType(type) == SelectSeq(presets, LAMBDA p : p.type = type)

\* C13: the numeric presets are one per entry of numeric_summary, each for
\* the entry's column, in the order of the entries; without a summary
\* there is no preset at all.
C13_OneNumericPresetPerSummaryEntry ==
    IF ~IsSome(selectedSummary) THEN presets = <<>>
    ELSE LET entries == Get(selectedSummary).numeric_summary
             numeric == PresetsOfType("numeric")
         IN /\ Len(numeric) = Len(entries)
            /\ \A i \in 1..Len(entries) :
                  /\ numeric[i].fields = <<entries[i].key>>
                  /\ numeric[i].label = <<entries[i].key, " distribution">>
                  /\ presets[i] = numeric[i]

\* C13 witness: the dashboard shows a summary with statistics for the two
\* columns n and m, and recommends a distribution chart for each.
C13_Witness ==
    /\ lastEvent = Event("select", 2)
    /\ IsSome(selectedSummary)
    /\ Keys(Get(selectedSummary).numeric_summary) = <<"n", "m">>
    /\ Len(PresetsOfType("numeric")) = 2
    /\ presets[2].fields = <<"m">>

\* The values sampled for a column.
ColumnValues(summary, column) ==
    [r \in 1..Len(summary.sample_records) |-> Field(summary.sample_records[r], column)]

\* A column of texts: a sampled value is a string, none is a number.
StringColumn(summary, column) ==
    LET values == ColumnValues(summary, column)
    IN /\ \E r \in 1..Len(values) : values[r].kind = "string"
       /\ \A r \in 1..Len(values) : values[r].kind # "number"

\* A column of timestamps: its sampled texts all parse.
TimestampColumn(summary, column) ==
    LET values == ColumnValues(summary, column)
    IN /\ StringColumn(summary, column)
       /\ \A r \in 1..Len(values) :
             values[r].kind = "string" => values[r].text \in TimestampTexts

CategoricalColumns(summary) ==
    SelectSeq(summary.schema_fields,
              LAMBDA c : StringColumn(summary, c) /\ ~TimestampColumn(summary, c))

\* C14: there is at most one categorical preset, there is one when the
\* summary has a categorical column, and its fields are the first one or
\* two categorical columns in the order of schema_fields.
C14_CategoricalPresetInSchemaOrder ==
    IsSome(selectedSummary)
        => LET categorical == PresetsOfType("categorical")
               columns == CategoricalColumns(Get(selectedSummary))
           IN /\ Len(categorical) <= 1
              /\ Len(columns) > 0 => Len(categorical) = 1
              /\ Len(categorical) = 1 => categorical[1].fields = Slice(columns, 2)

\* The numeric columns present in the sample records, in schema order.
NumericColumnsPresent(summary) ==
    SelectSeq(summary.schema_fields,
              LAMBDA c : \E r \in 1..Len(summary.sample_records) :
                            isNumeric(Field(summary.sample_records[r], c)))

\* C15: the time-series presets are one for each column whose sampled
\* values parse as timestamps and none for another column, and the chart
\* of each plots the column against the numeric columns of the sample.
C15_TimeSeriesPresetPerTimestampColumn ==
    IsSome(selectedSummary)
        => LET summary == Get(selectedSummary)
               series == PresetsOfType("timeseries")
           IN /\ \A c \in {summary.schema_fields[k] : k \in 1..Len(summary.schema_fields)} :
                    TimestampColumn(summary, c)
                        <=> \E i \in 1..Len(series) : series[i].fields = <<c>>
              /\ \A i, k \in 1..Len(series) : series[i].fields = series[k].fields => i = k
              /\ \A i \in 1..Len(series) :
                    LET chart == TimeSeriesChart(summary, series[i].fields[1])
                    IN /\ IsSome(chart)
                       /\ Get(chart).x = series[i].fields[1]
                       /\ Get(chart).lines = NumericColumnsPresent(summary)

\* C16: with minimum < maximum and the three statistics present the mean
\* marker is placed, at a percentage within 0 .. 100 that is
\* (mean - minimum) / (maximum - minimum) * 100 when the mean lies between
\* minimum and maximum; no marker is placed exactly when a statistic is
\* missing or minimum = maximum.
C16_MeanMarkerWithinBar ==
    \A i \in 1..Len(numericSummary) :
        LET item == numericSummary[i]
            present == IsSome(item.mean) /\ IsSome(item.minimum) /\ IsSome(item.maximum)
        IN /\ ~IsSome(item.meanPercent) <=> (~present \/ item.minimum = item.maximum)
           /\ (present /\ Get(item.minimum) < Get(item.maximum))
                 => LET p == Get(item.meanPercent)
                        lo == Get(item.minimum)
                        hi == Get(item.maximum)
                        mean == Get(item.mean)
                    IN /\ p.den > 0
                       /\ 0 <= p.num
                       /\ p.num <= 100 * p.den
                       /\ (lo <= mean /\ mean <= hi)
                             => p.num * (hi - lo) = (mean - lo) * 100 * p.den

\* C16 witness: the dashboard shows a column with minimum 0, mean 1 and
\* maximum 4; its marker stands at 25 percent.
C16_Witness ==
    /\ lastEvent = Event("select", 2)
    /\ Len(numericSummary) > 0
    /\ numericSummary[1].minimum = Some(0)
    /\ numericSummary[1].mean = Some(1)
    /\ numericSummary[1].maximum = Some(4)
    /\ IsSome(numericSummary[1].meanPercent)
    /\ Get(numericSummary[1].meanPercent).num = 25 * Get(numericSummary[1].meanPercent).den

\* C20: the table of the dashboard, its raw JSON view and the sample table
\* of the analysis dialog each show the first SampleLimit records of the
\* summary at most.
C20_ViewsShowBoundedPrefix ==
    /\ IsSome(selectedSummary)
          => /\ Len(sampleTable.rows) <= SampleLimit
             /\ Len(rawSampleJson) <= SampleLimit
             /\ rawSampleJson = Slice(Get(selectedSummary).sample_records, SampleLimit)
    /\ (showAnalysisModal /\ IsSome(modalSummary))
          => Len(renderSamples(Get(modalSummary)).rows) <= SampleLimit

(***************************************************************************)
(* Properties of HomePage, checked under SpecHome.                         *)
(***************************************************************************)
\* C17: after the wizard has reported connection c (onConnectionSaved /
\* onJobCompleted), once no fetch of the list is in flight, none has failed
\* and the list shown contains c, selectedId = c, whatever the order of
\* the responses.
C17_ReportedConnectionStaysSelected ==
    (/\ IsSome(reported)
     /\ InFlightOf(fetches) = 0
     /\ \E i \in 1..Len(pageConnections) : pageConnections[i].id = Get(reported))
    => selectedId = reported

(***************************************************************************)
(* Properties of the start of an ingestion, checked under SpecIngest.      *)
(***************************************************************************)
IsIngestRequest(r) == r.method = "POST" /\ r.url.route = "/connections/{id}/ingest"

\* C18: POST /connections/{id}/ingest is sent only by handleIngestion, with
\* the id of the connection the save stored (connectionId non-null) and
\* the body {force_refresh: false}; handleIngestion called with no saved
\* connection sends nothing and ends in ingestState = "failed" with an
\* error; a start request answered not ok or failing ends the run in
\* ingestState = "failed" with an error, no status request sent.
C18_IngestOnlyForSavedConnection ==
    /\ [](\A i \in 1..Len(sentNow) :
            IsIngestRequest(sentNow[i])
            => /\ lastEvent.kind = "ingestStart"
               /\ Len(sentNow) = 1
               /\ IsSome(connectionId)
               /\ Get(connectionId) \in 1..Len(connections)
               /\ connections[Get(connectionId)].id = Get(connectionId)
               /\ sentNow[i].url = IngestUrl(Get(connectionId))
               /\ sentNow[i].body = Some([force_refresh |-> FALSE]))
    /\ [][(/\ ~IsSome(connectionId)
           /\ lastEvent'.kind \in {"ingestNoConnection", "ingestStart"})
          => /\ sentNow' = <<>>
             /\ runs' = runs
             /\ ingestState' = "failed"
             /\ ingestError' # NULL]_vars
    /\ [][\A slot \in RunSlots :
            (/\ AtPc(slot, "start")
             /\ lastEvent' \in {Event("ingestNotOk", slot), Event("ingestThrows", slot)})
            => /\ ingestState' = "failed"
               /\ ingestError' # NULL
               /\ Get(runs[slot]).polls = 0
               /\ sentNow' = <<>>
               /\ runs'[slot] = None]_vars

\* handleIngestion has been called with no saved connection.
C18_Witness ==
    /\ lastEvent = Event("ingestNoConnection", 0)
    /\ ~IsSome(connectionId)
    /\ ingestState = "failed"
    /\ ingestError = "Save the connection before running ingestion."
    /\ sentNow = <<>>

(***************************************************************************)
(* Properties of the AiInsightsPanel, checked under SpecInsights.          *)
(***************************************************************************)
IsAnalysisRequest(r) == r.method = "POST" /\ r.url.route = "/connections/{id}/analysis"

HasSummary(list, id) ==
    \E i \in 1..Len(list) : list[i].id = id /\ list[i].last_ingestion_summary # NULL

\* C19: POST /connections/{id}/analysis is sent only for a connection that
\* has a last_ingestion_summary and with a question that is not blank; a
\* submission without a connection or with a blank question sends nothing,
\* sets an error and leaves loading false; when a submission settles
\* loading is false, and loading is true only while a request is pending.
C19_AnalysisOnlyWithSummaryAndQuestion ==
    /\ [](/\ \A i \in 1..Len(sentNow) :
                IsAnalysisRequest(sentNow[i])
                => /\ lastEvent.kind = "analysisStart"
                   /\ Len(sentNow) = 1
                   /\ HasSummary(pageConnections, sentNow[i].url.id)
                   /\ HasSummary(connections, sentNow[i].url.id)
                   /\ sentNow[i].url.id = Get(selectedId)
                   /\ Trim(Get(sentNow[i].body).question) # EmptyText
          /\ loading => InFlightOf(analyses) > 0)
    /\ [][(/\ lastEvent'.kind \in {"analysisRejected", "analysisStart"}
           /\ lastEvent' # lastEvent \/ sentNow' # sentNow \/ error' # error
           /\ ~IsSome(panelConnectionId) \/ Trim(question) = EmptyText)
          => /\ sentNow' = <<>>
             /\ analyses' = analyses
             /\ error' # NULL
             /\ loading' = FALSE]_vars
    /\ [][\A slot \in AnalysisSlots :
            (IsSome(analyses[slot]) /\ analyses'[slot] = None) => loading' = FALSE]_vars

\* An analysis has been requested for the selected connection and answered.
C19_Witness ==
    /\ lastEvent.kind = "analysisOk"
    /\ answer = AnswerAbout(Get(selectedId))
    /\ question = TextA
    /\ ~loading
    /\ error = NULL
    /\ InFlightOf(analyses) = 0

(***************************************************************************)
(* Properties of the sample table, checked under SpecDashboard.            *)
(***************************************************************************)
\* C21: in the dashboard's sample table every row has one cell per header,
\* a key a record omits is shown as "-" like an explicit null, and every
\* column that occurs in a displayed sample record has a header.
C21_SparseColumnsHaveHeaders ==
    (IsSome(selectedSummary) /\ Len(Get(selectedSummary).sample_records) > 0)
    => LET shown == Slice(Get(selectedSummary).sample_records, SampleLimit)
           headers == sampleTable.headers
           rows == sampleTable.rows
       IN /\ Len(rows) = Len(shown)
          /\ \A r \in 1..Len(rows) :
                /\ Len(rows[r]) = Len(headers)
                /\ \A h \in 1..Len(headers) :
                      Field(shown[r], headers[h]).kind \in {"null", "undefined"}
                      => rows[r][h] = "-"
          /\ \A r \in 1..Len(shown) :
                \A k \in 1..Len(shown[r]) :
                    \E h \in 1..Len(headers) : headers[h] = shown[r][k].key

(***************************************************************************)
(* Properties of the wizard's records of a run, checked under SpecIngest.  *)
(***************************************************************************)
RunFailureKinds == {"ingestNoConnection", "ingestNotOk", "ingestThrows",
                    "pollNotOk", "pollThrows", "pollFailed", "pollTimeout"}

IsJobCompletedCall(c) == c.fn = "onJobCompleted"

\* The step is a continuation of run `slot` after its status request.
PollEndStep(slot) ==
    /\ AtPc(slot, "fetch")
    /\ runs'[slot] # runs[slot]
    /\ lastEvent' \in {Event(k, slot) : k \in PollResponseKinds \cup {"pollNotOk", "pollThrows"}}

\* C23: a polling run stops at the first status response that reports
\* completed or failed: the run is over, it sends no request, and it calls
\* onJobCompleted once, with the connection of the run and that job; a
\* run that ends by timeout, by a non-ok response or by a network error,
\* and a response that lets the loop go on, call nothing.
C23_RunStopsAtTerminalResponse ==
    /\ [](\A i \in 1..Len(calledNow) :
            IsJobCompletedCall(calledNow[i])
            => /\ Len(calledNow) = 1
               /\ lastEvent.kind \in {"pollCompleted", "pollFailed"}
               /\ calledNow[i].job.status \in TerminalStatuses
               /\ runs[lastEvent.slot] = None)
    /\ [][\A slot \in RunSlots :
            PollEndStep(slot)
            => LET run == Get(runs[slot])
                   data == jobs[run.jobId]
               IN IF lastEvent'.kind \in {"pollCompleted", "pollFailed", "pollContinue"}
                     /\ data.status \in TerminalStatuses
                  THEN /\ runs'[slot] = None
                       /\ sentNow' = <<>>
                       /\ lastEvent'.kind = (IF data.status = "completed"
                                             THEN "pollCompleted" ELSE "pollFailed")
                       /\ calledNow' = <<[fn |-> "onJobCompleted",
                                          id |-> run.connectionId, job |-> data]>>
                       /\ jobStatus' = Some(data)
                  ELSE calledNow' = <<>>]_vars

\* A run has ended on a response reporting the job failed, and has called
\* onJobCompleted with it.
C23_Witness ==
    /\ lastEvent.kind = "pollFailed"
    /\ Len(calledNow) = 1
    /\ calledNow[1].fn = "onJobCompleted"
    /\ calledNow[1].job.status = "failed"
    /\ runs[lastEvent.slot] = None
    /\ sentNow = <<>>

(***************************************************************************)
(* Properties of overlapping calls, checked under SpecOverlap.             *)
(***************************************************************************)
\* The runs that are in their pollJobStatus loop.
Looping == {slot \in DOMAIN runs : AtPc(slot, "wait") \/ AtPc(slot, "fetch")}

\* C24: at most one pollJobStatus loop runs at a time, and Run Data
\* Ingestion is unavailable while a run is waiting or polling, whatever
\* edits, tests and saves happen meanwhile.
C24_OneLoopPerWizard ==
    /\ Cardinality(Looping) <= 1
    /\ Looping # {} => ~RunIngestionEnabled


\* The step applies the response of a pending test, save or run.
ResponseKinds ==
    {"testOk", "testNotOk", "testThrows", "saveOk", "saveNotOk", "saveThrows",
     "ingestOk", "ingestOkAfterTimeout", "ingestNotOk", "ingestThrows",
     "pollNotOk", "pollThrows"} \cup PollResponseKinds

ResponseStep ==
    /\ lastEvent'.kind \in ResponseKinds
    /\ tests' # tests \/ saves' # saves \/ runs' # runs

\* C25: once a form edit has reset the wizard (status "idle" until the
\* user starts a new action), the response of a test, save or status poll
\* started before the edit is not applied: status, result, connectionId,
\* jobStatus and ingestState keep their values and no callback is called.
C25_AbandonedResponsesIgnored ==
    [][(status = "idle" /\ ResponseStep)
       => /\ UNCHANGED <<status, result, connectionId, jobStatus, ingestState>>
          /\ calledNow' = <<>>]_vars


\* C26: whenever ingestState is "completed", jobStatus is non-null and
\* its status is "completed".
C26_CompletedStateHasCompletedJob ==
    ingestState = "completed"
    => /\ IsSome(jobStatus)
       /\ Get(jobStatus).status = "completed"


SaveFailureStep ==
    /\ lastEvent'.kind \in {"saveNotOk", "saveThrows"}
    /\ saves' # saves

\* C27: a failed save (non-ok response or exception) ends in saveState
\* "error" with a non-null saveError and connectionId null, so that Run
\* Data Ingestion is unavailable; and whenever saveState is "saved",
\* connectionId holds the id of the connection stored last.
C27_FailedSaveLeavesNoConnection ==
    /\ [][SaveFailureStep
          => /\ saveState' = "error"
             /\ saveError' # NULL
             /\ connectionId' = None
             /\ ~RunIngestionEnabled']_vars
    /\ [](saveState = "saved"
          => /\ IsSome(connectionId)
             /\ Get(connectionId) = Len(connections))


\* No call of fetchConnections awaits its response.
Quiescent == \A slot \in FetchSlots : fetches[slot] = None

ListedIds == {pageConnections[i].id : i \in 1..Len(pageConnections)}

\* C28: with a list that does not change, HomePage's effect loop
\* quiesces: without a further selection by the user the page comes to a
\* state with no GET /connections awaiting its response; in that state
\* nothing but a selection by the user sends a request or changes
\* selectedId; and when the list shown is not empty the selectedId the
\* page has settled on is the id of a listed connection.
C28_EffectLoopQuiesces ==
    /\ []<>(Quiescent \/ lastEvent.kind = "select")
    /\ [][Quiescent => lastEvent'.kind = "select"]_vars
    /\ [](Quiescent /\ Len(pageConnections) > 0
          => /\ IsSome(selectedId)
             /\ Get(selectedId) \in ListedIds)

\* The mount of a page with two stored connections has settled after the
\* second fetch, which the change of selectedId caused.
C28_Witness ==
    /\ Quiescent
    /\ lastEvent.kind = "fetchOk"
    /\ Len(pageConnections) = MaxConnections
    /\ selectedId = Some(pageConnections[1].id)
    /\ ~isLoading


\* Two characters that are the same letter, in either case.
SameLetter(c, d) ==
    \/ c = d
    \/ <<c, d>> \in {<<"a", "A">>, <<"A", "a">>, <<"b", "B">>, <<"B", "b">>,
                     <<"k", "K">>, <<"K", "k">>}

ContainsIgnoringCase(t, text) ==
    \E start \in 0..(Len(t) - Len(text)) :
        \A j \in 1..Len(text) : SameLetter(t[start + j], text[j])

MatchesFilter(connection) ==
    \/ ContainsIgnoringCase(connection.portal_name, filterText)
    \/ ContainsIgnoringCase(connection.dataset_id, filterText)

IdsOf(items) == {items[i].id : i \in 1..Len(items)}

InListOrder(items) == \A i, j \in 1..Len(items) : i < j => items[i].id < items[j].id

\* C29: for a list of n >= 1 connections the dashboard offers exactly
\* connections[0]; the open history dialog with a blank filter offers
\* exactly connections[1..n-1] in list order, so that every connection is
\* offered by exactly one of the two; the history button is shown iff
\* n > 1; and with a non-blank filter the dialog offers exactly the
\* history connections whose portal_name or dataset_id contains the filter
\* text in either case, in list order.
C29_DashboardAndHistoryPartition ==
    LET n == Len(pageConnections)
        history == [i \in 1..(n - 1) |-> pageConnections[i + 1]]
    IN n >= 1 =>
        /\ DashboardOffered = <<pageConnections[1]>>
        /\ HistoryEntryShown <=> n > 1
        /\ showHistory /\ Trim(filterText) = EmptyText
           => /\ HistoryOffered = history
              /\ IdsOf(DashboardOffered) \cup IdsOf(HistoryOffered) = IdsOf(pageConnections)
              /\ IdsOf(DashboardOffered) \cap IdsOf(HistoryOffered) = {}
        /\ showHistory /\ Trim(filterText) # EmptyText
           => /\ \A i \in 1..(n - 1) :
                    MatchesFilter(history[i])
                    <=> \E k \in 1..Len(HistoryOffered) : HistoryOffered[k] = history[i]
              /\ IdsOf(HistoryOffered) \subseteq IdsOf(history)
              /\ Len(HistoryOffered) = Cardinality(IdsOf(HistoryOffered))
              /\ InListOrder(HistoryOffered)

\* A filter in upper case has kept some but not all of the history
\* connections, one of them by a name stored in lower case.
C29_Witness ==
    /\ showHistory
    /\ lastEvent.kind = "filter"
    /\ filterText = <<"A">>
    /\ Len(pageConnections) = MaxListed
    /\ Len(HistoryOffered) = 1
    /\ HistoryOffered[1].portal_name = <<"a", "b">>


\* C30: whenever the panel displays an answer, it is the answer to a
\* request made for the connection selected in the dashboard; and a
\* rejected submission leaves no answer of an earlier request on display.
C30_AnswerBelongsToSelection ==
    /\ [](answer # ""
          => /\ IsSome(panelConnectionId)
             /\ answer = AnswerAbout(Get(panelConnectionId)))
    /\ [][lastEvent'.kind = "analysisRejected" /\ error' # error => answer' = ""]_vars

====
